---- MODULE Spec2Model ----
(***************************************************************************)
(* Model of the Upload-Post Python client (src/upload_post/api_client.py): *)
(* the parameter builder (_add_*_params), media resolution and file        *)
(* handles of the upload methods, and the request executor (_request).     *)
(*                                                                         *)
(* Python values are tagged records.  A str is a sequence of characters;   *)
(* a word whose characters no operation of the client inspects is written  *)
(* as a single token of that sequence.                                     *)
(***************************************************************************)
EXTENDS Integers, Sequences, FiniteSets, TLC

VARIABLES
    api_key,   \* self.api_key: the key given at construction
    headers,   \* self.session.headers: the headers sent with every request
    call,      \* the public method invocation in progress or just finished
    sent,      \* the HTTP requests the transport was asked to send by this call
    handles,   \* the file handles this call opened, in order: [path, open]
    form       \* the (data, files) form body built by the parameter builder

vars == <<api_key, headers, call, sent, handles, form>>

(***************************************************************************)
(* Python values                                                           *)
(***************************************************************************)
None == [t |-> "none"]
StrV(s) == [t |-> "str", v |-> s]
BoolV(b) == [t |-> "bool", v |-> b]
IntV(n) == [t |-> "int", v |-> n]
ListV(l) == [t |-> "list", v |-> l]

\* bool(x): Python truthiness, as used by `if x:` and `x or y`
Truthy(x) ==
    CASE x.t = "none" -> FALSE
      [] x.t = "str"  -> x.v # <<>>
      [] x.t = "bool" -> x.v
      [] x.t = "int"  -> x.v # 0
      [] x.t = "list" -> x.v # <<>>
      [] x.t = "dict" -> DOMAIN x.v # {}

\* x or y
\* y or x: the second operand tried first
OrSecond(x, y) == IF Truthy(y) THEN y ELSE x

Or(x, y) == IF Truthy(x) THEN x ELSE y

Digits == <<"0", "1", "2", "3", "4", "5", "6", "7", "8", "9">>

\* str(x) for the values the client formats: str(True) is "True", str(5) is "5"
PyStr(x) ==
    CASE x.t = "str"  -> x.v
      [] x.t = "bool" -> IF x.v THEN <<"T", "r", "u", "e">> ELSE <<"F", "a", "l", "s", "e">>
      [] x.t = "int"  -> <<Digits[x.v + 1]>>
      [] x.t = "none" -> <<"N", "o", "n", "e">>

Upper == <<"A", "B", "C", "D", "E", "F", "G", "H", "I", "J", "K", "L", "M",
           "N", "O", "P", "Q", "R", "S", "T", "U", "V", "W", "X", "Y", "Z">>
LowerOf == <<"a", "b", "c", "d", "e", "f", "g", "h", "i", "j", "k", "l", "m",
             "n", "o", "p", "q", "r", "s", "t", "u", "v", "w", "x", "y", "z">>

LowerChar(c) ==
    IF \E i \in 1..26 : Upper[i] = c
    THEN LowerOf[CHOOSE i \in 1..26 : Upper[i] = c]
    ELSE c

\* s.lower()
Lower(s) == [i \in 1..Len(s) |-> LowerChar(s[i])]

\* s.startswith(prefix)
StartsWith(s, prefix) ==
    /\ Len(s) >= Len(prefix)
    /\ SubSeq(s, 1, Len(prefix)) = prefix

\* s.strip(): leading and trailing blanks removed
RECURSIVE LStrip(_)
LStrip(s) == IF s # <<>> /\ Head(s) = " " THEN LStrip(Tail(s)) ELSE s
RECURSIVE RStrip(_)
RStrip(s) ==
    IF s # <<>> /\ s[Len(s)] = " " THEN RStrip(SubSeq(s, 1, Len(s) - 1)) ELSE s
Strip(s) == RStrip(LStrip(s))

\* s.split(","): the pieces between commas, empty pieces kept
RECURSIVE SplitFrom(_, _, _)
SplitFrom(s, i, cur) ==
    IF i > Len(s) THEN <<cur>>
    ELSE IF s[i] = "," THEN <<cur>> \o SplitFrom(s, i + 1, <<>>)
    ELSE SplitFrom(s, i + 1, Append(cur, s[i]))
Split(s) == SplitFrom(s, 1, <<>>)

\* the pieces of the string taken as they are, blanks included
AsListUntrimmed(x) ==
    IF x.t = "str"
    THEN [i \in 1..Len(Split(x.v)) |-> StrV(Split(x.v)[i])]
    ELSE x.v

\* [t.strip() for t in x.split(",")] if isinstance(x, str) else x
AsList(x) ==
    IF x.t = "str"
    THEN [i \in 1..Len(Split(x.v)) |-> StrV(Strip(Split(x.v)[i]))]
    ELSE x.v

(***************************************************************************)
(* Keyword bags: **kwargs is a function from option names to values        *)
(***************************************************************************)
\* kwargs.get(key)
Get(kwargs, key) == IF key \in DOMAIN kwargs THEN kwargs[key] ELSE None

\* the field appended under `is not None` in place of the truthiness test
AppendIfNotNone(data, kwargs, key) ==
    IF key \in DOMAIN kwargs /\ kwargs[key] # None
    THEN Append(data, <<key, kwargs[key]>>)
    ELSE data

\* if kwargs.get(key): data.append((key, kwargs[key]))
AppendIf(data, kwargs, key) ==
    IF Truthy(Get(kwargs, key)) THEN Append(data, <<key, kwargs[key]>>) ELSE data

\* the boolean field appended under the truthiness test: False is dropped
AppendBoolIfTruthy(data, kwargs, key) ==
    IF Truthy(Get(kwargs, key))
    THEN Append(data, <<key, StrV(Lower(PyStr(kwargs[key])))>>)
    ELSE data

\* if kwargs.get(key) is not None: data.append((key, str(kwargs[key]).lower()))
AppendBool(data, kwargs, key) ==
    IF Get(kwargs, key) # None
    THEN Append(data, <<key, StrV(Lower(PyStr(kwargs[key])))>>)
    ELSE data

\* the field appended under the truthiness test: 0 is dropped
AppendStrIfTruthy(data, kwargs, key) ==
    IF Truthy(Get(kwargs, key))
    THEN Append(data, <<key, StrV(PyStr(kwargs[key]))>>)
    ELSE data

\* if kwargs.get(key) is not None: data.append((key, str(kwargs[key])))
AppendStr(data, kwargs, key) ==
    IF Get(kwargs, key) # None
    THEN Append(data, <<key, StrV(PyStr(kwargs[key]))>>)
    ELSE data

\* the loop run from the last item to the first
RECURSIVE AppendEachReversed(_, _, _)
AppendEachReversed(data, name, items) ==
    IF items = <<>> THEN data
    ELSE AppendEachReversed(Append(data, <<name, items[Len(items)]>>), name,
                            SubSeq(items, 1, Len(items) - 1))

\* for item in items: data.append((name, item))
RECURSIVE AppendEach(_, _, _)
AppendEach(data, name, items) ==
    IF items = <<>> THEN data
    ELSE AppendEach(Append(data, <<name, Head(items)>>), name, Tail(items))

\* for key in keys: if kwargs.get(key): data.append((key, kwargs[key]))
RECURSIVE AppendAll(_, _, _)
AppendAll(data, kwargs, keys) ==
    IF keys = <<>> THEN data
    ELSE AppendAll(AppendIf(data, kwargs, Head(keys)), kwargs, Tail(keys))

(***************************************************************************)
(* Parameter builder.  A builder result is [exc, data]: the exception the  *)
(* builder raised so far ("none" when none) and the form fields appended.  *)
(***************************************************************************)
\* the str "tiktok", "instagram", ...: a platform name
P(name) == StrV(<<name>>)

\* "name" in platforms
In(name, platforms) == \E i \in 1..Len(platforms) : platforms[i] = P(name)

\* Python's argument binding for f(data, flag=..., **kwargs): a keyword of the
\* bag that names a parameter passed explicitly is a TypeError ("got multiple
\* values for argument")
Clash(explicit, kwargs) ==
    \/ "data" \in DOMAIN kwargs
    \/ DOMAIN explicit \cap DOMAIN kwargs # {}

\* the flag parameter left at its declared default, whatever the caller passes
FlagDefault(name, explicit, kwargs, default) == default

\* the value bound to the flag parameter `name`: passed explicitly, else taken
\* from the bag when the bag holds that name, else the declared default
Flag(name, explicit, kwargs, default) ==
    IF name \in DOMAIN explicit THEN explicit[name]
    ELSE IF name \in DOMAIN kwargs THEN Truthy(kwargs[name])
    ELSE default

\* the section called whether or not its platform was requested
InvokeAlways(r, requested, explicit, kwargs, d) ==
    IF r.exc # "none" THEN r
    ELSE IF Clash(explicit, kwargs) THEN [r EXCEPT !.exc = "TypeError"]
    ELSE [r EXCEPT !.data = d]

\* if requested: self._add_X_params(data, <explicit flags>, **kwargs)
Invoke(r, requested, explicit, kwargs, d) ==
    IF r.exc # "none" \/ ~requested THEN r
    ELSE IF Clash(explicit, kwargs) THEN [r EXCEPT !.exc = "TypeError"]
    ELSE [r EXCEPT !.data = d]

title_overrides ==
    <<"bluesky_title", "instagram_title", "facebook_title", "tiktok_title",
      "linkedin_title", "x_title", "youtube_title", "pinterest_title",
      "threads_title">>

desc_overrides ==
    <<"description", "linkedin_description", "youtube_description",
      "facebook_description", "tiktok_description", "pinterest_description">>

comment_overrides ==
    <<"instagram_first_comment", "facebook_first_comment", "x_first_comment",
      "threads_first_comment", "youtube_first_comment", "reddit_first_comment",
      "bluesky_first_comment">>

_add_common_params(data, user, title, platforms, kwargs) ==
    LET d1 == Append(data, <<"user", user>>)
        d2 == IF Truthy(title) THEN Append(d1, <<"title", title>>) ELSE d1
        d3 == AppendEach(d2, "platform[]", platforms)
        d4 == AppendIf(d3, kwargs, "first_comment")
        d5 == AppendIf(d4, kwargs, "alt_text")
        d6 == AppendIf(d5, kwargs, "scheduled_date")
        d7 == AppendIf(d6, kwargs, "timezone")
        d8 == AppendBool(d7, kwargs, "add_to_queue")
        d9 == AppendStr(d8, kwargs, "max_posts_per_slot")
        d10 == AppendBool(d9, kwargs, "async_upload")
        d11 == AppendAll(d10, kwargs, title_overrides)
        d12 == AppendAll(d11, kwargs, desc_overrides)
    IN  AppendAll(d12, kwargs, comment_overrides)

_add_tiktok_params(data, is_video, kwargs) ==
    LET d1 == AppendBool(data, kwargs, "disable_comment")
        d2 == AppendBool(d1, kwargs, "brand_content_toggle")
        d3 == AppendBool(d2, kwargs, "brand_organic_toggle")
    IN  IF is_video
        THEN LET v1 == AppendIf(d3, kwargs, "privacy_level")
                 v2 == AppendBool(v1, kwargs, "disable_duet")
                 v3 == AppendBool(v2, kwargs, "disable_stitch")
                 v4 == AppendStr(v3, kwargs, "cover_timestamp")
                 v5 == AppendBool(v4, kwargs, "is_aigc")
             IN  AppendIf(v5, kwargs, "post_mode")
        ELSE AppendStr(AppendBool(d3, kwargs, "auto_add_music"), kwargs,
                       "photo_cover_index")

_add_instagram_params(data, is_video, kwargs) ==
    LET d1 == AppendAll(data, kwargs,
                        <<"media_type", "collaborators", "user_tags", "location_id">>)
    IN  IF is_video
        THEN AppendAll(AppendBool(d1, kwargs, "share_to_feed"), kwargs,
                       <<"cover_url", "audio_name", "thumb_offset">>)
        ELSE d1

_add_youtube_params(data, kwargs) ==
    LET d1 == IF Truthy(Get(kwargs, "tags"))
              THEN AppendEach(data, "tags[]", AsList(kwargs["tags"]))
              ELSE data
        d2 == AppendAll(d1, kwargs, <<"categoryId", "privacyStatus">>)
        d3 == AppendBool(d2, kwargs, "embeddable")
        d4 == AppendIf(d3, kwargs, "license")
        d5 == AppendBool(d4, kwargs, "publicStatsViewable")
        d6 == AppendIf(d5, kwargs, "thumbnail_url")
        d7 == AppendBool(d6, kwargs, "selfDeclaredMadeForKids")
        d8 == AppendBool(d7, kwargs, "containsSyntheticMedia")
        d9 == AppendAll(d8, kwargs,
                        <<"defaultLanguage", "defaultAudioLanguage",
                          "allowedCountries", "blockedCountries">>)
        d10 == AppendBool(d9, kwargs, "hasPaidProductPlacement")
    IN  AppendIf(d10, kwargs, "recordingDate")

_add_linkedin_params(data, is_text, kwargs) ==
    LET d1 == AppendAll(data, kwargs, <<"visibility", "target_linkedin_page_id">>)
        link == Or(Get(kwargs, "linkedin_link_url"), Get(kwargs, "link_url"))
    IN  IF is_text /\ Truthy(link)
        THEN Append(d1, <<"linkedin_link_url", link>>)
        ELSE d1

_add_facebook_params(data, is_video, is_text, kwargs) ==
    LET d1 == AppendIf(data, kwargs, "facebook_page_id")
        d2 == IF is_video
              THEN AppendAll(d1, kwargs,
                             <<"video_state", "facebook_media_type", "thumbnail_url">>)
              ELSE d1
    IN  IF is_text THEN AppendIf(d2, kwargs, "facebook_link_url") ELSE d2

_add_pinterest_params(data, is_video, kwargs) ==
    LET d1 == AppendAll(data, kwargs,
                        <<"pinterest_board_id", "pinterest_alt_text", "pinterest_link">>)
    IN  IF is_video
        THEN AppendStr(AppendAll(d1, kwargs,
                                 <<"pinterest_cover_image_url",
                                   "pinterest_cover_image_content_type",
                                   "pinterest_cover_image_data">>),
                       kwargs, "pinterest_cover_image_key_frame_time")
        ELSE d1

_add_x_params(data, is_text, kwargs) ==
    LET reply_settings == Get(kwargs, "reply_settings")
        d1 == IF Truthy(reply_settings) /\ reply_settings # StrV(<<"everyone">>)
              THEN Append(data, <<"reply_settings", reply_settings>>)
              ELSE data
        d2 == AppendBool(d1, kwargs, "nullcast")
        d3 == AppendAll(d2, kwargs, <<"quote_tweet_id", "geo_place_id">>)
        d4 == AppendBool(d3, kwargs, "for_super_followers_only")
        d5 == AppendIf(d4, kwargs, "community_id")
        d6 == AppendBool(d5, kwargs, "share_with_followers")
        d7 == AppendIf(d6, kwargs, "direct_message_deep_link")
        d8 == AppendBool(d7, kwargs, "x_long_text_as_post")
    IN  IF ~is_text
        THEN LET n1 == IF Truthy(Get(kwargs, "tagged_user_ids"))
                       THEN AppendEach(d8, "tagged_user_ids[]",
                                       AsList(kwargs["tagged_user_ids"]))
                       ELSE d8
             IN  AppendAll(n1, kwargs, <<"place_id", "x_thread_image_layout">>)
        ELSE LET t1 == AppendAll(d8, kwargs, <<"post_url", "card_uri">>)
             IN  IF Truthy(Get(kwargs, "poll_options"))
                 THEN LET t2 == AppendEach(t1, "poll_options[]",
                                           AsList(kwargs["poll_options"]))
                          t3 == IF Truthy(Get(kwargs, "poll_duration"))
                                THEN AppendStr(t2, kwargs, "poll_duration")
                                ELSE t2
                      IN  AppendIf(t3, kwargs, "poll_reply_settings")
                 ELSE t1

_add_threads_params(data, kwargs) ==
    AppendIf(AppendBool(data, kwargs, "threads_long_text_as_post"), kwargs,
             "threads_thread_media_layout")

_add_reddit_params(data, is_text, kwargs) ==
    LET d1 == AppendAll(data, kwargs, <<"subreddit", "flair_id">>)
        reddit_link == Or(Get(kwargs, "reddit_link_url"), Get(kwargs, "link_url"))
    IN  IF is_text /\ Truthy(reddit_link)
        THEN Append(d1, <<"reddit_link_url", reddit_link>>)
        ELSE d1

(***************************************************************************)
(* Transport: what requests.Session does with one request                  *)
(***************************************************************************)
\* a dict: a function from keys to values
Dict(f) == [t |-> "dict", v |-> f]
EmptyDict == Dict([k \in {} |-> None])

\* d[k] = v
Put(d, k, v) ==
    Dict([x \in DOMAIN d.v \cup {k} |-> IF x = k THEN v ELSE d.v[x]])

\* d.get(k)
DictGet(d, k) == IF k \in DOMAIN d.v THEN d.v[k] ELSE None

\* the keys of the JSON error bodies explored, in their order in the body
BodyKeys == <<"message", "detail", "error">>

\* str(d) of a dict: "{'message': 'm', 'error': 'e'}"
RECURSIVE ReprItems(_, _)
ReprItems(d, keys) ==
    IF keys = <<>> THEN <<>>
    ELSE IF Head(keys) \in DOMAIN d.v
         THEN <<"'", Head(keys), "': '">> \o PyStr(d.v[Head(keys)]) \o <<"', ">>
              \o ReprItems(d, Tail(keys))
         ELSE ReprItems(d, Tail(keys))
Repr(d) == <<"{">> \o ReprItems(d, BodyKeys) \o <<"}">>

\* str(x) as the f-string of _request formats error_msg
Text(x) == IF x.t = "dict" THEN Repr(x) ELSE PyStr(x)

MessageValues == {StrV(<<>>), StrV(<<"invalid platform">>)}
DetailValues == {StrV(<<"bad request">>)}
ErrorValues == {StrV(<<"e">>)}

\* JSON objects a server may answer with: any subset of the keys
JsonObjects ==
    {Dict(f) : f \in
        {g \in UNION {[ks -> MessageValues \cup DetailValues \cup ErrorValues] :
                        ks \in SUBSET {"message", "detail", "error"}} :
            /\ ("message" \in DOMAIN g => g["message"] \in MessageValues)
            /\ ("detail" \in DOMAIN g => g["detail"] \in DetailValues)
            /\ ("error" \in DOMAIN g => g["error"] \in ErrorValues)}}

\* JSON values that are not objects: an array, a string, null
JsonOthers == {ListV(<<StrV(<<"e">>)>>), StrV(<<"oops">>), None}

\* response bodies: decodable JSON, text that is not JSON, nothing
Bodies ==
    {[t |-> "json", v |-> j] : j \in JsonObjects \cup JsonOthers}
    \cup {[t |-> "text"], [t |-> "empty"]}

\* what response.json() raises on an undecodable body: requests.JSONDecodeError
\* (a RequestException, requests >= 2.27) or json's ValueError (requests
\* 2.25.1 and 2.26, which setup.py admits)
DecodeErrors == {"RequestException", "ValueError"}

StatusCodes == {200, 422}

\* what the transport does with one request: it raises (no response), or a
\* response arrives; `decode` is what response.json() raises on that body
Outcomes ==
    {[kind |-> "ConnectionError"], [kind |-> "Timeout"]}
    \cup {[kind |-> "response", status |-> st, body |-> b, decode |-> "none"] :
            st \in StatusCodes, b \in {x \in Bodies : x.t = "json"}}
    \cup {[kind |-> "response", status |-> st, body |-> b, decode |-> de] :
            st \in StatusCodes, b \in {x \in Bodies : x.t # "json"},
            de \in DecodeErrors}

\* str(e) of the transport's exception: the raw transport error text
RawText(outcome) ==
    CASE outcome.kind = "ConnectionError" -> <<"Connection refused">>
      [] outcome.kind = "Timeout" -> <<"Read timed out">>
      [] outcome.status >= 400 -> <<"422 Client Error: Unprocessable Entity for url">>
      [] OTHER -> <<"Expecting value: line 1 column 1 (char 0)">>

(***************************************************************************)
(* Request executor                                                        *)
(***************************************************************************)
\* a request sent with the key left out of its Authorization header
RequestWithoutKey(method, endpoint, hdrs, json, data, files, params) ==
    [method |-> method, endpoint |-> endpoint,
     headers |-> [hdrs EXCEPT !.Authorization = <<"Apikey ">>],
     json |-> json, data |-> data, files |-> files, params |-> params]

\* the parts of one HTTP request; a part not passed to the transport is None
Request(method, endpoint, hdrs, json, data, files, params) ==
    [method |-> method, endpoint |-> endpoint, headers |-> hdrs, json |-> json,
     data |-> data, files |-> files, params |-> params]

\* the result of a call: the exception raised ("none": it returned `value`), the
\* exception's message, and the requests handed to the transport
Returned(value, reqs) ==
    [exc |-> "none", msg |-> <<>>, value |-> value, sent |-> reqs]
Raised(exc, msg, reqs) ==
    [exc |-> exc, msg |-> msg, value |-> None, sent |-> reqs]

\* raise UploadPostError(f"API request failed: {error_msg}")
RequestFailed(error_msg, reqs) ==
    Raised("UploadPostError", <<"API request failed: ">> \o error_msg, reqs)

\* the except clause without the look into the error body: always str(e)
ErrorFromBodyRaw(outcome, reqs) == RequestFailed(RawText(outcome), reqs)

\* the except clause of _request, for a RequestException e that carries a
\* response (raise_for_status): the text taken from the error body
ErrorFromBody(outcome, reqs) ==
    IF outcome.body.t # "json"
    THEN RequestFailed(RawText(outcome), reqs)            \* except ValueError: pass
    ELSE LET error_data == outcome.body.v
         IN  IF error_data.t # "dict"
             THEN Raised("AttributeError", <<"object has no attribute 'get'">>, reqs)
             ELSE RequestFailed(
                      Text(Or(Or(DictGet(error_data, "message"),
                                 DictGet(error_data, "detail")),
                              StrV(Repr(error_data)))),
                      reqs)

\* a second attempt after a transport error: the request goes out twice
AnswerWithRetry(outcome, reqs) ==
    IF outcome.kind # "response"
    THEN RequestFailed(RawText(outcome), reqs \o reqs)
    ELSE IF outcome.status >= 400
    THEN ErrorFromBody(outcome, reqs)
    ELSE IF outcome.body.t = "json"
    THEN Returned(outcome.body.v, reqs)
    ELSE IF outcome.decode = "RequestException"
    THEN RequestFailed(RawText(outcome), reqs)
    ELSE Raised("ValueError", RawText(outcome), reqs)

\* response.raise_for_status(); return response.json(), and the except clause
Answer(outcome, reqs) ==
    IF outcome.kind # "response"
    THEN RequestFailed(RawText(outcome), reqs)            \* e.response is None
    ELSE IF outcome.status >= 400
    THEN ErrorFromBody(outcome, reqs)
    ELSE IF outcome.body.t = "json"
    THEN Returned(outcome.body.v, reqs)
    ELSE IF outcome.decode = "RequestException"
    THEN RequestFailed(RawText(outcome), reqs)            \* e.response is None
    ELSE Raised("ValueError", RawText(outcome), reqs)

_request(endpoint, method, data, files, json_data, params, hdrs, outcome) ==
    CASE method = "GET" ->
            Answer(outcome, <<Request(method, endpoint, hdrs, None, None, None, params)>>)
      [] method \in {"POST", "DELETE"} /\ Truthy(json_data) ->
            Answer(outcome, <<Request(method, endpoint, hdrs, json_data, None, None, None)>>)
      [] method = "POST" ->
            Answer(outcome, <<Request(method, endpoint, hdrs, None, data, files, None)>>)
      [] method = "DELETE" ->
            Answer(outcome, <<Request(method, endpoint, hdrs, None, None, None, None)>>)
      [] OTHER ->
            Raised("UploadPostError", <<"Unsupported HTTP method: ", method>>, <<>>)

(***************************************************************************)
(* Media resolution and file handles                                       *)
(***************************************************************************)
UrlLower == <<"h", "t", "t", "p", "s", ":", "/", "/", "x", "/", "a.mp4">>
UrlUpper == <<"H", "T", "T", "P", ":", "/", "/", "x", "/", "b.mp4">>
LocalA == <<"media", "/", "a.jpg">>
LocalB == <<"b.jpg">>
Missing == <<"missing.jpg">>

\* the local paths that exist: Path(p).exists()
ExistingPaths == {LocalA, LocalB}
Exists(path) == path \in ExistingPaths

\* the prefix test on the string as given, without lower()
IsUrlCaseSensitive(s) ==
    \/ StartsWith(s, <<"h", "t", "t", "p", ":", "/", "/">>)
    \/ StartsWith(s, <<"h", "t", "t", "p", "s", ":", "/", "/">>)

\* s.lower().startswith(("http://", "https://"))
IsUrl(s) ==
    \/ StartsWith(Lower(s), <<"h", "t", "t", "p", ":", "/", "/">>)
    \/ StartsWith(Lower(s), <<"h", "t", "t", "p", "s", ":", "/", "/">>)

\* Path(p).name: the last component of the path
RECURSIVE Name(_)
Name(path) ==
    IF \E i \in 1..Len(path) : path[i] = "/"
    THEN Name(Tail(path))
    ELSE path

\* f = open(path, "rb"): one more open handle
Open(hs, path) == Append(hs, [path |-> path, open |-> TRUE])

\* for f in opened_files: f.close()
CloseAll(hs) == [i \in 1..Len(hs) |-> [hs[i] EXCEPT !.open = FALSE]]

\* a file part (field, (name, handle)); the handle is its index among `hs`
FilePart(field, path, hs) == <<field, <<Name(path), Len(hs)>>>>

\* the state of an upload call as it runs: exception so far, form fields, file
\* parts, handles opened
Building(exc, msg, data, files, hs) ==
    [exc |-> exc, msg |-> msg, data |-> data, files |-> files, handles |-> hs]

\* a media reference opened without the exists() check: open() itself raises
ResolveUnchecked(b, field, ref, what) ==
    IF b.exc # "none" THEN b
    ELSE IF IsUrl(ref)
    THEN [b EXCEPT !.data = Append(b.data, <<field, StrV(ref)>>)]
    ELSE IF ~Exists(ref)
    THEN [b EXCEPT !.exc = "FileNotFoundError", !.msg = <<"No such file: ">> \o ref]
    ELSE LET hs == Open(b.handles, ref)
         IN  [b EXCEPT !.handles = hs,
                       !.files = Append(b.files, FilePart(field, ref, hs))]

\* one media reference of upload_video, upload_photos or upload_document: a URL
\* becomes a string field, a local path is opened and becomes a file part
Resolve(b, field, ref, what) ==
    IF b.exc # "none" THEN b
    ELSE IF IsUrl(ref)
    THEN [b EXCEPT !.data = Append(b.data, <<field, StrV(ref)>>)]
    ELSE IF ~Exists(ref)
    THEN [b EXCEPT !.exc = "UploadPostError", !.msg = <<what>> \o ref]
    ELSE LET hs == Open(b.handles, ref)
         IN  [b EXCEPT !.handles = hs,
                       !.files = Append(b.files, FilePart(field, ref, hs))]

\* for photo in photos: ... (the loop stops at the first raise)
RECURSIVE ResolveEach(_, _, _, _)
ResolveEach(b, field, refs, what) ==
    IF refs = <<>> THEN b
    ELSE ResolveEach(Resolve(b, field, Head(refs), what), field, Tail(refs), what)

\* one first_comment_media entry: always a local path
\* a first_comment_media entry handled as the photos are: a URL sent as a field
AttachOrUrl(b, media_path) ==
    IF b.exc # "none" THEN b
    ELSE IF IsUrl(media_path)
    THEN [b EXCEPT !.data = Append(@, <<"first_comment_media[]", StrV(media_path)>>)]
    ELSE IF ~Exists(media_path)
    THEN [b EXCEPT !.exc = "UploadPostError",
                   !.msg = <<"First comment media file not found: ">> \o media_path]
    ELSE LET hs == Open(b.handles, media_path)
         IN  [b EXCEPT !.handles = hs,
                       !.files = Append(b.files,
                                        FilePart("first_comment_media[]", media_path, hs))]

Attach(b, media_path) ==
    IF b.exc # "none" THEN b
    ELSE IF ~Exists(media_path)
    THEN [b EXCEPT !.exc = "UploadPostError",
                   !.msg = <<"First comment media file not found: ">> \o media_path]
    ELSE LET hs == Open(b.handles, media_path)
         IN  [b EXCEPT !.handles = hs,
                       !.files = Append(b.files,
                                        FilePart("first_comment_media[]", media_path, hs))]

\* first_comment_media = kwargs.get("first_comment_media")
\* if first_comment_media: for media_path in first_comment_media: ...
RECURSIVE AttachEach(_, _)
AttachEach(b, paths) ==
    IF paths = <<>> THEN b
    ELSE AttachEach(Attach(b, Head(paths).v), Tail(paths))

FirstCommentMedia(b, kwargs) ==
    IF Truthy(Get(kwargs, "first_comment_media"))
    THEN AttachEach(b, kwargs["first_comment_media"].v)
    ELSE b

NoFlags == [k \in {} |-> TRUE]

\* self._add_<name>_params(data, <explicit flags>, **kwargs): each flag
\* parameter takes the explicit value, else the bag's, else its declared default
SectionCall(name, data, explicit, kwargs) ==
    CASE name = "tiktok" ->
           _add_tiktok_params(data, Flag("is_video", explicit, kwargs, TRUE), kwargs)
      [] name = "instagram" ->
           _add_instagram_params(data, Flag("is_video", explicit, kwargs, TRUE), kwargs)
      [] name = "youtube" -> _add_youtube_params(data, kwargs)
      [] name = "linkedin" ->
           _add_linkedin_params(data, Flag("is_text", explicit, kwargs, FALSE), kwargs)
      [] name = "facebook" ->
           _add_facebook_params(data, Flag("is_video", explicit, kwargs, FALSE),
                                Flag("is_text", explicit, kwargs, FALSE), kwargs)
      [] name = "pinterest" ->
           _add_pinterest_params(data, Flag("is_video", explicit, kwargs, FALSE), kwargs)
      [] name = "x" ->
           _add_x_params(data, Flag("is_text", explicit, kwargs, FALSE), kwargs)
      [] name = "threads" -> _add_threads_params(data, kwargs)
      [] name = "reddit" ->
           _add_reddit_params(data, Flag("is_text", explicit, kwargs, FALSE), kwargs)

\* the call as it runs, after a builder call that ended as r
After(b, r) ==
    [b EXCEPT !.exc = r.exc, !.data = r.data,
              !.msg = IF r.exc = b.exc THEN b.msg
                      ELSE <<"got multiple values for argument">>]

\* self._add_common_params(data, user, title, platforms, **kwargs)
Common(b, user, title, platforms, kwargs) ==
    After(b, Invoke([exc |-> b.exc, data |-> b.data], TRUE, NoFlags, kwargs,
                    _add_common_params(b.data, user, title, platforms, kwargs)))

\* if name in platforms: self._add_<name>_params(data, <explicit flags>, **kwargs)
Section(b, name, platforms, explicit, kwargs) ==
    After(b, Invoke([exc |-> b.exc, data |-> b.data], In(name, platforms), explicit,
                    kwargs, SectionCall(name, b.data, explicit, kwargs)))

\* the sections run in the order of the platforms argument, once per name
RECURSIVE SectionsAsListed(_, _, _, _)
SectionsAsListed(b, calls, platforms, kwargs) ==
    IF platforms = <<>> THEN b
    ELSE LET named == SelectSeq(calls, LAMBDA c : P(c[1]) = Head(platforms))
             r == IF named = <<>> THEN b
                  ELSE Section(b, named[1][1], platforms, named[1][2], kwargs)
         IN  SectionsAsListed(r, calls, Tail(platforms), kwargs)

\* the if statements of an upload method, one after the other
RECURSIVE Sections(_, _, _, _)
Sections(b, calls, platforms, kwargs) ==
    IF calls = <<>> THEN b
    ELSE Sections(Section(b, Head(calls)[1], platforms, Head(calls)[2], kwargs),
                  Tail(calls), platforms, kwargs)

(***************************************************************************)
(* Upload methods                                                          *)
(***************************************************************************)
\* the outcome of an upload call: the result of the request (or the exception
\* raised before it), the handles the call opened, the form body it built
Run(res, b) ==
    [exc |-> res.exc, msg |-> res.msg, value |-> res.value, sent |-> res.sent,
     handles |-> b.handles,
     form |-> [built |-> b.exc = "none", data |-> b.data, files |-> b.files]]

\* the handles closed at the end of the try block only: skipped when it raises
FinallyOnSuccess(run) ==
    IF run.exc = "none" THEN [run EXCEPT !.handles = CloseAll(@)] ELSE run

\* finally: close every handle the call opened
Finally(run) == [run EXCEPT !.handles = CloseAll(@)]

\* return self._request(endpoint, "POST", data=data, files=files if files else None),
\* reached only when nothing was raised before
Post(b, endpoint, hdrs, outcome) ==
    IF b.exc # "none"
    THEN Run(Raised(b.exc, b.msg, <<>>), b)
    ELSE Run(_request(endpoint, "POST", ListV(b.data),
                      IF b.files # <<>> THEN ListV(b.files) ELSE None,
                      None, None, hdrs, outcome), b)

\* the builder calls of upload_video
VideoCalls ==
    <<<<"tiktok", [is_video |-> TRUE]>>, <<"instagram", [is_video |-> TRUE]>>,
      <<"youtube", NoFlags>>, <<"linkedin", NoFlags>>,
      <<"facebook", [is_video |-> TRUE]>>, <<"pinterest", [is_video |-> TRUE]>>,
      <<"x", [is_text |-> FALSE]>>, <<"threads", NoFlags>>>>

\* the common fields added after the platform sections
VideoParamsCommonLast(b, user, title, platforms, kwargs) ==
    Common(Sections(b, VideoCalls, platforms, kwargs), user, title, platforms, kwargs)

VideoParams(b, user, title, platforms, kwargs) ==
    Sections(Common(b, user, title, platforms, kwargs), VideoCalls, platforms, kwargs)

upload_video(video_path, title, user, platforms, kwargs, hdrs, outcome) ==
    LET b0 == Building("none", <<>>, <<>>, <<>>, <<>>)
        b1 == Resolve(b0, "video", video_path, "Video file not found: ")
        b2 == VideoParams(b1, user, title, platforms, kwargs)
    IN  Finally(Post(b2, <<"/upload">>, hdrs, outcome))

\* the builder calls of upload_photos
PhotosCalls ==
    <<<<"tiktok", [is_video |-> FALSE]>>, <<"instagram", [is_video |-> FALSE]>>,
      <<"linkedin", NoFlags>>, <<"facebook", [is_video |-> FALSE]>>,
      <<"pinterest", [is_video |-> FALSE]>>, <<"x", [is_text |-> FALSE]>>,
      <<"threads", NoFlags>>, <<"reddit", NoFlags>>>>

PhotosParams(b, user, title, platforms, kwargs) ==
    Sections(Common(b, user, title, platforms, kwargs), PhotosCalls, platforms, kwargs)

upload_photos(photos, title, user, platforms, kwargs, hdrs, outcome) ==
    LET b0 == Building("none", <<>>, <<>>, <<>>, <<>>)
        b1 == ResolveEach(b0, "photos[]", photos, "Photo file not found: ")
        b2 == PhotosParams(b1, user, title, platforms, kwargs)
        b3 == FirstCommentMedia(b2, kwargs)
    IN  Finally(Post(b3, <<"/upload_photos">>, hdrs, outcome))

\* if kwargs.get("link_url"): data.append(("link_url", kwargs["link_url"]))
LinkUrl(b, kwargs) ==
    IF b.exc = "none" THEN [b EXCEPT !.data = AppendIf(@, kwargs, "link_url")] ELSE b

\* if "bluesky" in platforms: the bluesky_link_url field, when given
BlueskyLink(b, platforms, kwargs) ==
    IF b.exc = "none" /\ In("bluesky", platforms)
    THEN [b EXCEPT !.data = AppendIf(@, kwargs, "bluesky_link_url")]
    ELSE b

\* the x section of a text post called as for a media post
TextCallsAsMedia ==
    <<<<"linkedin", [is_text |-> TRUE]>>,
      <<"facebook", [is_video |-> FALSE, is_text |-> TRUE]>>,
      <<"x", [is_text |-> FALSE]>>, <<"threads", NoFlags>>,
      <<"reddit", [is_text |-> TRUE]>>>>

\* the builder calls of upload_text
TextCalls ==
    <<<<"linkedin", [is_text |-> TRUE]>>,
      <<"facebook", [is_video |-> FALSE, is_text |-> TRUE]>>,
      <<"x", [is_text |-> TRUE]>>, <<"threads", NoFlags>>,
      <<"reddit", [is_text |-> TRUE]>>>>

TextParams(b, user, title, platforms, kwargs) ==
    BlueskyLink(Sections(LinkUrl(Common(b, user, title, platforms, kwargs), kwargs),
                         TextCalls, platforms, kwargs),
                platforms, kwargs)

\* upload_text builds the form and opens first_comment_media before its try
\* block: only the request is covered by the finally
TextRequest(b, hdrs, outcome) ==
    IF b.exc # "none"
    THEN Post(b, <<"/upload_text">>, hdrs, outcome)
    ELSE Finally(Post(b, <<"/upload_text">>, hdrs, outcome))

upload_text(title, user, platforms, kwargs, hdrs, outcome) ==
    LET b0 == Building("none", <<>>, <<>>, <<>>, <<>>)
        b1 == TextParams(b0, user, title, platforms, kwargs)
        b2 == FirstCommentMedia(b1, kwargs)
    IN  TextRequest(b2, hdrs, outcome)

\* if value: data.append((name, value))
Given(data, name, value) ==
    IF Truthy(value) THEN Append(data, <<name, value>>) ELSE data

\* if value is not None: data.append((name, str(value).lower()))
GivenBool(data, name, value) ==
    IF value # None THEN Append(data, <<name, StrV(Lower(PyStr(value)))>>) ELSE data

\* the form fields of upload_document
DocumentParams(data, title, user, description, visibility, target_linkedin_page_id, scheduled_date, timezone, add_to_queue, async_upload) ==
    LET d1 == data \o <<<<"user", user>>, <<"title", title>>,
                        <<"platform[]", P("linkedin")>>>>
        d2 == Given(d1, "description", description)
        d3 == Given(d2, "visibility", visibility)
        d4 == Given(d3, "target_linkedin_page_id", target_linkedin_page_id)
        d5 == Given(d4, "scheduled_date", scheduled_date)
        d6 == Given(d5, "timezone", timezone)
        d7 == GivenBool(d6, "add_to_queue", add_to_queue)
    IN  GivenBool(d7, "async_upload", async_upload)

upload_document(document_path, title, user, description, visibility, target_linkedin_page_id, scheduled_date, timezone, add_to_queue, async_upload, hdrs, outcome) ==
    LET b0 == Building("none", <<>>, <<>>, <<>>, <<>>)
        b1 == Resolve(b0, "document", document_path, "Document file not found: ")
        b2 == IF b1.exc # "none" THEN b1
              ELSE [b1 EXCEPT !.data =
                       DocumentParams(@, title, user, description, visibility,
                                      target_linkedin_page_id, scheduled_date,
                                      timezone, add_to_queue, async_upload)]
    IN  Finally(Post(b2, <<"/upload_document">>, hdrs, outcome))

(***************************************************************************)
(* Status, scheduling, user management and helper methods                  *)
(***************************************************************************)
\* params[name] = value when the optional argument is given
PutIf(d, name, value) == IF Truthy(value) THEN Put(d, name, value) ELSE d

\* body[name] = value when the optional argument is not None
PutIfNotNone(d, name, value) == IF value # None THEN Put(d, name, value) ELSE d

\* ",".join(items)
RECURSIVE Join(_)
Join(items) ==
    IF items = <<>> THEN <<>>
    ELSE IF Len(items) = 1 THEN Head(items).v
    ELSE Head(items).v \o <<",">> \o Join(Tail(items))

JoinIf(d, name, value) ==
    IF Truthy(value) THEN Put(d, name, StrV(Join(value.v))) ELSE d

\* params if params else None
OrNone(d) == IF Truthy(d) THEN d ELSE None

get_status(request_id, hdrs, outcome) ==
    _request(<<"/uploadposts/status">>, "GET", None, None, None,
             Put(EmptyDict, "request_id", request_id), hdrs, outcome)

get_history(page, limit, hdrs, outcome) ==
    _request(<<"/uploadposts/history">>, "GET", None, None, None,
             Put(Put(EmptyDict, "page", page), "limit", limit), hdrs, outcome)

get_analytics(profile_username, platforms, page_id, page_urn, hdrs, outcome) ==
    LET p1 == JoinIf(EmptyDict, "platforms", platforms)
        p2 == PutIf(p1, "page_id", page_id)
        p3 == PutIf(p2, "page_urn", page_urn)
    IN  _request(<<"/analytics/">> \o profile_username.v, "GET", None, None, None,
                 OrNone(p3), hdrs, outcome)

get_total_impressions(profile_username, period, start_date, end_date, date, platforms, breakdown, metrics, hdrs, outcome) ==
    LET p1 == PutIf(EmptyDict, "period", period)
        p2 == PutIf(p1, "start_date", start_date)
        p3 == PutIf(p2, "end_date", end_date)
        p4 == PutIf(p3, "date", date)
        p5 == JoinIf(p4, "platform", platforms)
        p6 == IF Truthy(breakdown) THEN Put(p5, "breakdown", StrV(<<"true">>)) ELSE p5
        p7 == JoinIf(p6, "metrics", metrics)
    IN  _request(<<"/uploadposts/total-impressions/">> \o profile_username.v, "GET",
                 None, None, None, OrNone(p7), hdrs, outcome)

get_post_analytics(request_id, hdrs, outcome) ==
    _request(<<"/uploadposts/post-analytics/">> \o request_id.v, "GET",
             None, None, None, None, hdrs, outcome)

get_platform_metrics(hdrs, outcome) ==
    _request(<<"/uploadposts/platform-metrics">>, "GET", None, None, None, None,
             hdrs, outcome)

list_scheduled(hdrs, outcome) ==
    _request(<<"/uploadposts/schedule">>, "GET", None, None, None, None, hdrs, outcome)

cancel_scheduled(job_id, hdrs, outcome) ==
    _request(<<"/uploadposts/schedule/">> \o job_id.v, "DELETE", None, None, None,
             None, hdrs, outcome)

edit_scheduled(job_id, scheduled_date, timezone, hdrs, outcome) ==
    LET b1 == PutIf(EmptyDict, "scheduled_date", scheduled_date)
        body == PutIf(b1, "timezone", timezone)
    IN  _request(<<"/uploadposts/schedule/">> \o job_id.v, "POST", None, None, body,
                 None, hdrs, outcome)

list_users(hdrs, outcome) ==
    _request(<<"/uploadposts/users">>, "GET", None, None, None, None, hdrs, outcome)

create_user(username, hdrs, outcome) ==
    _request(<<"/uploadposts/users">>, "POST", None, None,
             Put(EmptyDict, "username", username), None, hdrs, outcome)

delete_user(username, hdrs, outcome) ==
    _request(<<"/uploadposts/users">>, "DELETE", None, None,
             Put(EmptyDict, "username", username), None, hdrs, outcome)

generate_jwt(username, redirect_url, logo_image, redirect_button_text, platforms, show_calendar, readonly_calendar, connect_title, connect_description, hdrs, outcome) ==
    LET b0 == Put(EmptyDict, "username", username)
        b1 == PutIf(b0, "redirect_url", redirect_url)
        b2 == PutIf(b1, "logo_image", logo_image)
        b3 == PutIf(b2, "redirect_button_text", redirect_button_text)
        b4 == PutIf(b3, "platforms", platforms)
        b5 == PutIfNotNone(b4, "show_calendar", show_calendar)
        b6 == PutIfNotNone(b5, "readonly_calendar", readonly_calendar)
        b7 == PutIf(b6, "connect_title", connect_title)
        body == PutIf(b7, "connect_description", connect_description)
    IN  _request(<<"/uploadposts/users/generate-jwt">>, "POST", None, None, body,
                 None, hdrs, outcome)

validate_jwt(jwt, hdrs, outcome) ==
    _request(<<"/uploadposts/users/validate-jwt">>, "POST", None, None,
             Put(EmptyDict, "jwt", jwt), None, hdrs, outcome)

\* params = {"profile": profile} if profile else None
get_pages(endpoint, profile, hdrs, outcome) ==
    _request(endpoint, "GET", None, None, None,
             IF Truthy(profile) THEN Put(EmptyDict, "profile", profile) ELSE None,
             hdrs, outcome)

get_facebook_pages(profile, hdrs, outcome) ==
    get_pages(<<"/uploadposts/facebook/pages">>, profile, hdrs, outcome)

get_linkedin_pages(profile, hdrs, outcome) ==
    get_pages(<<"/uploadposts/linkedin/pages">>, profile, hdrs, outcome)

get_pinterest_boards(profile, hdrs, outcome) ==
    get_pages(<<"/uploadposts/pinterest/boards">>, profile, hdrs, outcome)

(***************************************************************************)
(* Inputs explored                                                         *)
(***************************************************************************)
MaxPlatforms == 1   \* longest platforms list given to the parameter builder
MaxPhotos == 2      \* longest photos list
MaxMedia == 2       \* longest first_comment_media list
MaxListed == 2      \* longest platforms list given with the narrow keyword bags
MaxLinked == 2      \* longest platforms list given with the link options

SeqsUpTo(S, n) == UNION {[1..k -> S] : k \in 0..n}

Platforms ==
    {"tiktok", "instagram", "youtube", "linkedin", "facebook", "pinterest", "x",
     "threads", "reddit", "bluesky"}

BoolKeys ==
    {"add_to_queue", "async_upload", "disable_comment", "brand_content_toggle",
     "brand_organic_toggle", "disable_duet", "disable_stitch", "is_aigc",
     "auto_add_music", "share_to_feed", "embeddable", "publicStatsViewable",
     "selfDeclaredMadeForKids", "containsSyntheticMedia", "hasPaidProductPlacement",
     "nullcast", "for_super_followers_only", "share_with_followers",
     "x_long_text_as_post", "threads_long_text_as_post"}

IntKeys ==
    {"max_posts_per_slot", "cover_timestamp", "photo_cover_index",
     "pinterest_cover_image_key_frame_time", "thumb_offset", "poll_duration"}

ListKeys == {"tags", "tagged_user_ids", "poll_options"}

StrKeys ==
    {"first_comment", "alt_text", "scheduled_date", "timezone",
     "privacy_level", "post_mode", "media_type", "collaborators", "user_tags",
     "location_id", "cover_url", "audio_name", "categoryId", "privacyStatus",
     "license", "thumbnail_url", "defaultLanguage", "defaultAudioLanguage",
     "allowedCountries", "blockedCountries", "recordingDate", "visibility",
     "target_linkedin_page_id", "linkedin_link_url", "facebook_page_id",
     "video_state", "facebook_media_type", "facebook_link_url",
     "pinterest_board_id", "pinterest_alt_text", "pinterest_link",
     "pinterest_cover_image_url", "pinterest_cover_image_content_type",
     "pinterest_cover_image_data", "reply_settings", "quote_tweet_id",
     "geo_place_id", "community_id", "direct_message_deep_link", "place_id",
     "x_thread_image_layout", "post_url", "card_uri", "poll_reply_settings",
     "threads_thread_media_layout", "subreddit", "flair_id", "reddit_link_url",
     "link_url", "bluesky_link_url"}
    \cup {title_overrides[i] : i \in 1..Len(title_overrides)}
    \cup {desc_overrides[i] : i \in 1..Len(desc_overrides)}
    \cup {comment_overrides[i] : i \in 1..Len(comment_overrides)}

\* keywords that are parameter names of the builder functions, and a keyword
\* that is no option at all
FlagKeys == {"is_video", "is_text", "data"}
OtherKeys == {"unknown_option"}

OptionKeys == StrKeys \cup BoolKeys \cup IntKeys \cup ListKeys

\* the values explored for each keyword
ValuesOf(key) ==
    IF key \in BoolKeys \cup FlagKeys THEN {None, BoolV(TRUE), BoolV(FALSE)}
    ELSE IF key \in IntKeys THEN {None, IntV(0), IntV(5)}
    ELSE IF key \in ListKeys
    THEN {ListV(<<>>), ListV(<<StrV(<<"a">>)>>),
          ListV(<<StrV(<<"a">>), StrV(<<"b">>)>>),
          ListV(<<StrV(<<"b">>), StrV(<<"a">>), StrV(<<"b">>)>>),
          StrV(<<"a", ",", " ", "b">>)}
    ELSE IF key = "reply_settings"
    THEN {StrV(<<>>), StrV(<<"everyone">>), StrV(<<"following">>)}
    ELSE {StrV(<<>>), StrV(<<"v">>)}

EmptyBag == [k \in {} |-> None]

\* every bag over the keys `keys` that gives each of them a value
BagsOver(keys) ==
    {b \in [keys -> UNION {ValuesOf(k) : k \in keys}] :
        \A k \in keys : b[k] \in ValuesOf(k)}

\* a value of the option that the builder emits
Present(key) ==
    IF key \in BoolKeys THEN BoolV(TRUE)
    ELSE IF key \in IntKeys THEN IntV(5)
    ELSE IF key \in ListKeys THEN ListV(<<StrV(<<"a">>), StrV(<<"b">>)>>)
    ELSE StrV(<<"v">>)

\* every option at once, one of them with each of its values
AllWith(key) ==
    {[k \in OptionKeys |-> IF k = key THEN v ELSE Present(k)] : v \in ValuesOf(key)}

\* the bags given to the parameter builder: none, each keyword alone with each
\* of its values, every option at once, and the options that interact
ParamBags ==
    {EmptyBag}
    \cup UNION {BagsOver({k}) : k \in OptionKeys \cup FlagKeys \cup OtherKeys}
    \cup {[k \in OptionKeys |-> Present(k)]}
    \cup BagsOver({"link_url", "linkedin_link_url"})
    \cup BagsOver({"link_url", "reddit_link_url"})
    \cup {[poll_options |-> Present("poll_options"), poll_duration |-> d,
           poll_reply_settings |-> r] :
            d \in ValuesOf("poll_duration"), r \in ValuesOf("poll_reply_settings")}

\* those bags, and every option at once with each value of each one
OptionBags == ParamBags \cup UNION {AllWith(k) : k \in OptionKeys}

\* no platform, and each platform alone
OptionLists == {<<>>} \cup {<<P(n)>> : n \in Platforms}

ParamLists == SeqsUpTo({P(n) : n \in Platforms}, MaxPlatforms)

\* platform lists in every order, repetitions included, with no option and with
\* every option
ListedLists == SeqsUpTo({P(n) : n \in Platforms}, MaxListed)
ListedBags == {EmptyBag, [k \in OptionKeys |-> Present(k)]}
Titles == {None, StrV(<<>>), StrV(<<"T">>)}

\* the link options of a text post, each not supplied, None, empty or a value
\* of its own, for the platforms that read them and two that do not
LinkKeys == {"link_url", "linkedin_link_url", "reddit_link_url"}
LinkValue(key) ==
    CASE key = "link_url" -> StrV(<<"g">>)
      [] key = "linkedin_link_url" -> StrV(<<"l">>)
      [] key = "reddit_link_url" -> StrV(<<"r">>)
LinkBags ==
    UNION {{b \in [keys -> {None, StrV(<<>>)} \cup {LinkValue(k) : k \in keys}] :
               \A k \in keys : b[k] \in {None, StrV(<<>>), LinkValue(k)}} :
           keys \in SUBSET LinkKeys}
LinkLists == SeqsUpTo({P("linkedin"), P("reddit"), P("x"), P("bluesky")}, MaxLinked)

\* the answer of a server that accepts the request
Accepted ==
    [kind |-> "response", status |-> 200,
     body |-> [t |-> "json", v |-> Dict([k \in {"message"} |-> StrV(<<>>)])],
     decode |-> "none"]

\* the arguments explored with every outcome of the transport
ClientLists == {<<P("tiktok")>>, <<P("linkedin"), P("x")>>}
ClientBags ==
    {EmptyBag,
     [description |-> StrV(<<"v">>), tiktok_title |-> StrV(<<"v">>),
      add_to_queue |-> BoolV(FALSE)]}
MediaRefs == {UrlLower, UrlUpper, LocalA, Missing}
PhotoRefs == {UrlUpper, LocalA, Missing}
MediaPaths == {LocalB, Missing}

\* kwargs with first_comment_media=paths
WithMedia(bag, paths) ==
    [k \in DOMAIN bag \cup {"first_comment_media"} |->
        IF k = "first_comment_media"
        THEN ListV([i \in 1..Len(paths) |-> StrV(paths[i])])
        ELSE bag[k]]

MediaBags ==
    {WithMedia(b, ps) : b \in ClientBags, ps \in SeqsUpTo(MediaPaths, MaxMedia)}

\* first_comment_media lists of local paths and URLs
CommentPaths == {LocalB, Missing, UrlLower, UrlUpper}
CommentBags ==
    {WithMedia(b, ps) : b \in ClientBags, ps \in SeqsUpTo(CommentPaths, MaxMedia)}

\* the media and titles given with each family of keyword bags
PhotoLists == SeqsUpTo(PhotoRefs, MaxPhotos)
ParamTitles == {None, StrV(<<"T">>)}
CommentPhotos == {<<UrlUpper>>, <<LocalA>>}
ListedVideos == {UrlLower, LocalA}
ListedPhotos == {<<UrlUpper>>, <<LocalA, UrlLower>>}

OptStr == {None, StrV(<<"v">>)}
OptBool == {None, BoolV(FALSE)}
OptList == {None, ListV(<<StrV(<<"x">>), StrV(<<"reddit">>)>>)}
Pages == {IntV(1), IntV(2)}
Breakdowns == {BoolV(FALSE), BoolV(TRUE)}
ScheduledDates == OptStr \cup {StrV(<<>>)}
Names == {StrV(<<>>), StrV(<<"u">>)}
ApiKeys == {<<"key-1">>, <<"key-2">>}

(***************************************************************************)
(* The client as a state machine: one action per public method             *)
(***************************************************************************)
Idle == [state |-> "idle"]
NoForm == [built |-> FALSE, data |-> <<>>, files |-> <<>>]

\* a method that opens no file and builds no form
Plain(res) ==
    [exc |-> res.exc, msg |-> res.msg, value |-> res.value, sent |-> res.sent,
     handles |-> <<>>, form |-> NoForm]

\* __init__: the session headers are set once, from the key
Init ==
    /\ api_key \in ApiKeys
    /\ headers = [Authorization |-> <<"Apikey ">> \o api_key,
                  UserAgent |-> <<"upload-post-python-client/2.0.0">>,
                  XUploadPostSource |-> <<"pip">>]
    /\ call = Idle
    /\ sent = <<>>
    /\ handles = <<>>
    /\ form = NoForm

\* the method `op` ran with `args` and ended as `run`
Done(op, args, run) ==
    /\ call' = [state |-> "done", op |-> op, args |-> args, exc |-> run.exc,
                msg |-> run.msg, value |-> run.value]
    /\ sent' = run.sent
    /\ handles' = run.handles
    /\ form' = run.form
    /\ UNCHANGED <<api_key, headers>>

UploadVideo(refs, titles, lists, bags, outs) ==
    /\ call.state = "idle"
    /\ \E video_path \in refs, title \in titles, platforms \in lists, kwargs \in bags,
          outcome \in outs :
           Done("upload_video",
                [media |-> <<video_path>>, title |-> title, platforms |-> platforms,
                 kwargs |-> kwargs, outcome |-> outcome],
                upload_video(video_path, title, StrV(<<"u">>), platforms, kwargs,
                             headers, outcome))

UploadPhotos(photoLists, titles, lists, bags, outs) ==
    /\ call.state = "idle"
    /\ \E photos \in photoLists, title \in titles, platforms \in lists, kwargs \in bags,
          outcome \in outs :
           Done("upload_photos",
                [media |-> photos, title |-> title, platforms |-> platforms,
                 kwargs |-> kwargs, outcome |-> outcome],
                upload_photos(photos, title, StrV(<<"u">>), platforms, kwargs,
                              headers, outcome))

UploadText(titles, lists, bags, outs) ==
    /\ call.state = "idle"
    /\ \E title \in titles, platforms \in lists, kwargs \in bags, outcome \in outs :
           Done("upload_text",
                [media |-> <<>>, title |-> title, platforms |-> platforms,
                 kwargs |-> kwargs, outcome |-> outcome],
                upload_text(title, StrV(<<"u">>), platforms, kwargs, headers, outcome))

UploadDocument(refs, outs) ==
    /\ call.state = "idle"
    /\ \E document_path \in refs, description \in OptStr, visibility \in OptStr,
          add_to_queue \in OptBool, outcome \in outs :
           Done("upload_document",
                [media |-> <<document_path>>, platforms |-> <<P("linkedin")>>,
                 kwargs |-> [description |-> description, visibility |-> visibility,
                             timezone |-> StrV(<<"UTC">>),
                             add_to_queue |-> add_to_queue],
                 outcome |-> outcome],
                upload_document(document_path, StrV(<<"T">>), StrV(<<"u">>), description,
                                visibility, None, None, StrV(<<"UTC">>), add_to_queue,
                                None, headers, outcome))

GetStatus ==
    /\ call.state = "idle"
    /\ \E request_id \in Names, outcome \in Outcomes :
           Done("get_status", [outcome |-> outcome],
                Plain(get_status(request_id, headers, outcome)))

GetHistory ==
    /\ call.state = "idle"
    /\ \E page \in Pages, outcome \in Outcomes :
           Done("get_history", [outcome |-> outcome],
                Plain(get_history(page, IntV(5), headers, outcome)))

GetAnalytics ==
    /\ call.state = "idle"
    /\ \E platforms \in OptList, page_id \in OptStr, outcome \in Outcomes :
           Done("get_analytics", [outcome |-> outcome],
                Plain(get_analytics(StrV(<<"u">>), platforms, page_id, None, headers,
                                    outcome)))

GetTotalImpressions ==
    /\ call.state = "idle"
    /\ \E period \in OptStr, platforms \in OptList, breakdown \in Breakdowns,
          outcome \in Outcomes :
           Done("get_total_impressions", [outcome |-> outcome],
                Plain(get_total_impressions(StrV(<<"u">>), period, None, None, None,
                                            platforms, breakdown, None, headers, outcome)))

GetPostAnalytics ==
    /\ call.state = "idle"
    /\ \E outcome \in Outcomes :
           Done("get_post_analytics", [outcome |-> outcome],
                Plain(get_post_analytics(StrV(<<"r1">>), headers, outcome)))

GetPlatformMetrics ==
    /\ call.state = "idle"
    /\ \E outcome \in Outcomes :
           Done("get_platform_metrics", [outcome |-> outcome],
                Plain(get_platform_metrics(headers, outcome)))

ListScheduled ==
    /\ call.state = "idle"
    /\ \E outcome \in Outcomes :
           Done("list_scheduled", [outcome |-> outcome],
                Plain(list_scheduled(headers, outcome)))

CancelScheduled ==
    /\ call.state = "idle"
    /\ \E outcome \in Outcomes :
           Done("cancel_scheduled", [outcome |-> outcome],
                Plain(cancel_scheduled(StrV(<<"j1">>), headers, outcome)))

EditScheduled ==
    /\ call.state = "idle"
    /\ \E scheduled_date \in ScheduledDates, timezone \in OptStr,
          outcome \in Outcomes :
           Done("edit_scheduled",
                [scheduled_date |-> scheduled_date, timezone |-> timezone,
                 outcome |-> outcome],
                Plain(edit_scheduled(StrV(<<"j1">>), scheduled_date, timezone, headers,
                                     outcome)))

ListUsers ==
    /\ call.state = "idle"
    /\ \E outcome \in Outcomes :
           Done("list_users", [outcome |-> outcome], Plain(list_users(headers, outcome)))

CreateUser ==
    /\ call.state = "idle"
    /\ \E username \in Names, outcome \in Outcomes :
           Done("create_user", [outcome |-> outcome],
                Plain(create_user(username, headers, outcome)))

DeleteUser ==
    /\ call.state = "idle"
    /\ \E username \in Names, outcome \in Outcomes :
           Done("delete_user", [outcome |-> outcome],
                Plain(delete_user(username, headers, outcome)))

GenerateJwt ==
    /\ call.state = "idle"
    /\ \E username \in Names, redirect_url \in OptStr, platforms \in OptList,
          show_calendar \in OptBool, outcome \in Outcomes :
           Done("generate_jwt", [outcome |-> outcome],
                Plain(generate_jwt(username, redirect_url, None, None, platforms,
                                   show_calendar, None, None, StrV(<<>>), headers,
                                   outcome)))

ValidateJwt ==
    /\ call.state = "idle"
    /\ \E jwt \in Names, outcome \in Outcomes :
           Done("validate_jwt", [outcome |-> outcome],
                Plain(validate_jwt(jwt, headers, outcome)))

GetFacebookPages ==
    /\ call.state = "idle"
    /\ \E profile \in OptStr, outcome \in Outcomes :
           Done("get_facebook_pages", [outcome |-> outcome],
                Plain(get_facebook_pages(profile, headers, outcome)))

GetLinkedinPages ==
    /\ call.state = "idle"
    /\ \E profile \in OptStr, outcome \in Outcomes :
           Done("get_linkedin_pages", [outcome |-> outcome],
                Plain(get_linkedin_pages(profile, headers, outcome)))

GetPinterestBoards ==
    /\ call.state = "idle"
    /\ \E profile \in OptStr, outcome \in Outcomes :
           Done("get_pinterest_boards", [outcome |-> outcome],
                Plain(get_pinterest_boards(profile, headers, outcome)))

\* the call is over: its result went to the caller, and nothing of the call
\* is left (a handle the call left open is dropped with its frame)
Return ==
    /\ call.state = "done"
    /\ call' = Idle
    /\ sent' = <<>>
    /\ handles' = <<>>
    /\ form' = NoForm
    /\ UNCHANGED <<api_key, headers>>

Next ==
    \/ UploadVideo(MediaRefs, {StrV(<<"T">>)}, ClientLists, ClientBags, Outcomes)
    \/ UploadPhotos(PhotoLists, {StrV(<<"T">>)}, ClientLists,
                    MediaBags, Outcomes)
    \/ UploadText({StrV(<<"T">>)}, ClientLists, MediaBags, Outcomes)
    \/ UploadDocument(MediaRefs, Outcomes)
    \/ GetStatus \/ GetHistory \/ GetAnalytics \/ GetTotalImpressions
    \/ GetPostAnalytics \/ GetPlatformMetrics
    \/ ListScheduled \/ CancelScheduled \/ EditScheduled
    \/ ListUsers \/ CreateUser \/ DeleteUser \/ GenerateJwt \/ ValidateJwt
    \/ GetFacebookPages \/ GetLinkedinPages \/ GetPinterestBoards
    \/ Return

Spec == Init /\ [][Next]_vars

\* the parameter builder on its own: every upload method over the platform
\* lists and keyword bags, with a server that accepts the request
NextParams ==
    \/ UploadVideo({UrlLower}, ParamTitles, ParamLists, ParamBags, {Accepted})
    \/ UploadPhotos({<<UrlUpper>>}, ParamTitles, ParamLists, ParamBags,
                    {Accepted})
    \/ UploadText({StrV(<<"T">>)}, ParamLists, ParamBags, {Accepted})
    \/ UploadDocument({UrlLower}, {Accepted})
    \/ Return

SpecParams == Init /\ [][NextParams]_vars

\* the options of the parameter builder: every upload method, for each platform
\* alone, over the keyword bags that vary one option among all the others
NextOptions ==
    \/ UploadVideo({UrlLower}, {StrV(<<"T">>)}, OptionLists, OptionBags, {Accepted})
    \/ UploadPhotos({<<UrlUpper>>}, {StrV(<<"T">>)}, OptionLists, OptionBags,
                    {Accepted})
    \/ UploadText({StrV(<<"T">>)}, OptionLists, OptionBags, {Accepted})
    \/ UploadDocument({UrlLower}, {Accepted})
    \/ Return

SpecOptions == Init /\ [][NextOptions]_vars

\* text posts with the link options
NextLinks ==
    \/ UploadText({StrV(<<"T">>)}, LinkLists, LinkBags, {Accepted})
    \/ Return

SpecLinks == Init /\ [][NextLinks]_vars

\* photo and text posts with first_comment_media
NextComment ==
    \/ UploadPhotos(CommentPhotos, {StrV(<<"T">>)}, ClientLists,
                    CommentBags, {Accepted})
    \/ UploadText({StrV(<<"T">>)}, ClientLists, CommentBags, {Accepted})
    \/ Return

SpecComment == Init /\ [][NextComment]_vars

\* the parameter builder over platform lists of several names
NextListed ==
    \/ UploadVideo(ListedVideos, Titles, ListedLists, ListedBags, {Accepted})
    \/ UploadPhotos(ListedPhotos, Titles, ListedLists,
                    ListedBags, {Accepted})
    \/ UploadText(Titles, ListedLists, ListedBags, {Accepted})
    \/ UploadDocument({UrlLower}, {Accepted})
    \/ Return

SpecListed == Init /\ [][NextListed]_vars

(***************************************************************************)
(* Vocabulary of the properties                                            *)
(***************************************************************************)
UploadOps == {"upload_video", "upload_photos", "upload_text", "upload_document"}
JsonOps == {"edit_scheduled", "create_user", "delete_user", "generate_jwt", "validate_jwt"}

Finished == call.state = "done"
Uploaded == Finished /\ call.op \in UploadOps

\* the handles of the call that are still open
StillOpen == {i \in 1..Len(handles) : handles[i].open}

\* the first_comment_media paths the call was given
MediaGiven ==
    IF /\ call.op \in {"upload_photos", "upload_text"}
       /\ "first_comment_media" \in DOMAIN call.args.kwargs
    THEN LET l == call.args.kwargs["first_comment_media"].v
         IN  {l[i].v : i \in 1..Len(l)}
    ELSE {}

\* some local path the call refers to does not exist
RefersToMissing ==
    \/ \E i \in 1..Len(call.args.media) :
          LET ref == call.args.media[i]
          IN  ref \notin {UrlLower, UrlUpper} /\ ref \notin {LocalA, LocalB}
    \/ \E path \in MediaGiven : path \notin {LocalA, LocalB}

\* the request of the call reached the transport and failed there
TransportFailed ==
    /\ Finished /\ sent # <<>>
    /\ \/ call.args.outcome.kind \in {"ConnectionError", "Timeout"}
       \/ call.args.outcome.kind = "response" /\ call.args.outcome.status \notin 200..299

\* the server answered with an error status and this JSON object
ErrorObject ==
    /\ TransportFailed
    /\ call.args.outcome.kind = "response"
    /\ call.args.outcome.body.t = "json"
    /\ call.args.outcome.body.v.t = "dict"

\* the names of the form fields of the body built
FieldNames == {form.data[i][1] : i \in 1..Len(form.data)}

(***************************************************************************)
(* File handles of the upload methods                                      *)
(***************************************************************************)
\* C1: once an upload method has handed its request to the transport, every
\* file handle the call opened is closed when the call ends, whatever the
\* request came to: a value returned, a transport failure, an error status, a
\* body that does not decode.
C1_HandlesClosedAfterRequest ==
    (Uploaded /\ sent # <<>>) => StillOpen = {}

\* C1 witness: upload_photos opened a photo and a first-comment file, the
\* request failed with an error status, and both handles are closed.
C1_Witness ==
    /\ Uploaded /\ call.op = "upload_photos"
    /\ sent # <<>> /\ call.exc = "UploadPostError"
    /\ call.args.outcome.kind = "response"
    /\ \E i, j \in 1..Len(handles) :
          /\ handles[i].path = LocalA /\ handles[j].path = LocalB
          /\ ~handles[i].open /\ ~handles[j].open

\* C2: when a local path an upload call refers to does not exist, no handle
\* the call opened is still open after it raised.
C2_NoHandleLeftOpenOnMissing ==
    (Uploaded /\ RefersToMissing) => StillOpen = {}

\* C3: when a local path an upload call refers to does not exist, the call
\* raises UploadPostError and no request reaches the transport.
C3_MissingRaisesBeforeRequest ==
    (Uploaded /\ RefersToMissing) => (call.exc = "UploadPostError" /\ sent = <<>>)

\* C3 witness: upload_photos resolved its photo, then found a missing
\* first_comment_media path after the builder ran: it raised, nothing was sent.
C3_Witness ==
    /\ Uploaded /\ call.op = "upload_photos"
    /\ call.args.media = <<LocalA>>
    /\ Missing \in MediaGiven
    /\ call.exc = "UploadPostError" /\ sent = <<>>
    /\ Len(handles) >= 1

(***************************************************************************)
(* Errors of the request executor                                          *)
(***************************************************************************)
\* C4: whenever the request fails at the transport (connection error, timeout,
\* or an error status with any body), the exception that reaches the caller is
\* UploadPostError.
C4_TransportFailureIsUploadPostError ==
    TransportFailed => call.exc = "UploadPostError"

\* the `message` field of the error object, when it is a non-empty string
HasMessage ==
    /\ ErrorObject
    /\ "message" \in DOMAIN call.args.outcome.body.v.v
    /\ call.args.outcome.body.v.v["message"].t = "str"
    /\ call.args.outcome.body.v.v["message"].v # <<>>

HasDetail ==
    /\ ErrorObject
    /\ "detail" \in DOMAIN call.args.outcome.body.v.v
    /\ call.args.outcome.body.v.v["detail"].t = "str"
    /\ call.args.outcome.body.v.v["detail"].v # <<>>

\* C5 as stated: an error status with a JSON object whose `message` is a
\* non-empty string m makes the message of the UploadPostError equal m exactly.
C5_MessageEqualsServerMessage ==
    HasMessage =>
        (call.exc = "UploadPostError" /\ call.msg = call.args.outcome.body.v.v["message"].v)

\* C5 as amended: the message of the UploadPostError is "API request failed: "
\* followed by m.
C5_MessageIsPrefixedServerMessage ==
    HasMessage =>
        /\ call.exc = "UploadPostError"
        /\ call.msg = <<"API request failed: ">> \o call.args.outcome.body.v.v["message"].v

\* C5 witness: a 422 answer with the body {"message": "invalid platform"}.
C5_Witness ==
    /\ HasMessage
    /\ call.args.outcome.status = 422
    /\ DOMAIN call.args.outcome.body.v.v = {"message"}
    /\ call.msg = <<"API request failed: ", "invalid platform">>

\* the text chosen by the precedence message, detail, raw transport text
ChosenText ==
    IF HasMessage THEN call.args.outcome.body.v.v["message"].v
    ELSE IF HasDetail THEN call.args.outcome.body.v.v["detail"].v
    ELSE RawText(call.args.outcome)

\* C6: the error of a failed request carries the `message` field of the JSON
\* error body when present and non-empty, else its `detail` field when present
\* and non-empty, else the raw transport error text (whenever the body is not
\* decodable JSON or holds neither field).
C6_TextPrecedenceRawLast ==
    TransportFailed =>
        call.msg = <<"API request failed: ">> \o ChosenText

\* C7: a 2xx answer whose body does not decode as JSON makes the call raise
\* UploadPostError.
C7_DecodeFailureIsUploadPostError ==
    (/\ Finished /\ sent # <<>>
     /\ call.args.outcome.kind = "response"
     /\ call.args.outcome.status \in 200..299
     /\ call.args.outcome.body.t # "json")
        => call.exc = "UploadPostError"

\* C8: a call of a public method hands exactly one request to the transport,
\* whatever becomes of it, and none when a local path it refers to is missing.
C8_OneRequestPerCall ==
    Finished =>
        Len(sent) = IF call.op \in UploadOps /\ RefersToMissing THEN 0 ELSE 1

\* C8 witness: a status query whose connection failed: one request, no second
\* attempt.
C8_Witness ==
    /\ Finished /\ call.op = "get_status"
    /\ call.args.outcome.kind = "ConnectionError"
    /\ call.exc = "UploadPostError"
    /\ Len(sent) = 1

\* C9: no request carries both a JSON body and a form body; the requests of
\* edit_scheduled, create_user, delete_user, generate_jwt and validate_jwt carry
\* a JSON body; upload requests carry a form body and no JSON body.
C9_JsonOrFormBody ==
    Finished =>
        \A i \in 1..Len(sent) :
            /\ ~(sent[i].json # None /\ (sent[i].data # None \/ sent[i].files # None))
            /\ (call.op \in JsonOps => sent[i].json # None)
            /\ (call.op \in UploadOps => (sent[i].json = None /\ sent[i].data # None))

(***************************************************************************)
(* Platform-specific fields of the form body                               *)
(***************************************************************************)
\* the fields each per-platform section can emit
SectionFields(platform) ==
    CASE platform = "tiktok" ->
           {"disable_comment", "brand_content_toggle", "brand_organic_toggle",
            "privacy_level", "disable_duet", "disable_stitch", "cover_timestamp",
            "is_aigc", "post_mode", "auto_add_music", "photo_cover_index"}
      [] platform = "instagram" ->
           {"media_type", "collaborators", "user_tags", "location_id", "share_to_feed",
            "cover_url", "audio_name", "thumb_offset"}
      [] platform = "youtube" ->
           {"tags[]", "categoryId", "privacyStatus", "embeddable", "license",
            "publicStatsViewable", "thumbnail_url", "selfDeclaredMadeForKids",
            "containsSyntheticMedia", "defaultLanguage", "defaultAudioLanguage",
            "allowedCountries", "blockedCountries", "hasPaidProductPlacement",
            "recordingDate"}
      [] platform = "linkedin" ->
           {"visibility", "target_linkedin_page_id", "linkedin_link_url"}
      [] platform = "facebook" ->
           {"facebook_page_id", "video_state", "facebook_media_type", "thumbnail_url",
            "facebook_link_url"}
      [] platform = "pinterest" ->
           {"pinterest_board_id", "pinterest_alt_text", "pinterest_link",
            "pinterest_cover_image_url", "pinterest_cover_image_content_type",
            "pinterest_cover_image_data", "pinterest_cover_image_key_frame_time"}
      [] platform = "x" ->
           {"reply_settings", "nullcast", "quote_tweet_id", "geo_place_id",
            "for_super_followers_only", "community_id", "share_with_followers",
            "direct_message_deep_link", "x_long_text_as_post", "tagged_user_ids[]",
            "place_id", "x_thread_image_layout", "post_url", "card_uri",
            "poll_options[]", "poll_duration", "poll_reply_settings"}
      [] platform = "threads" ->
           {"threads_long_text_as_post", "threads_thread_media_layout"}
      [] platform = "reddit" -> {"subreddit", "flair_id", "reddit_link_url"}
      [] platform = "bluesky" -> {"bluesky_link_url"}

\* the title, description and first-comment fields whose name carries the
\* prefix of `platform`
PrefixedOverrides(platform) ==
    {name \in {platform \o "_title", platform \o "_description",
               platform \o "_first_comment"} :
        \/ \E i \in 1..Len(title_overrides) : title_overrides[i] = name
        \/ \E i \in 1..Len(desc_overrides) : desc_overrides[i] = name
        \/ \E i \in 1..Len(comment_overrides) : comment_overrides[i] = name}

\* the platforms a field belongs to: those whose section emits it and, when
\* `prefixed`, the one whose prefix an override field carries
Owners(name, prefixed) ==
    {p \in Platforms : \/ name \in SectionFields(p)
                       \/ prefixed /\ name \in PrefixedOverrides(p)}

\* every field of the body that belongs to some platform belongs to a platform
\* of the requested list
OnlyRequested(prefixed) ==
    \A name \in FieldNames :
        Owners(name, prefixed) # {}
            => \E p \in Owners(name, prefixed) : In(p, call.args.platforms)

\* C10 as stated: a platform-specific field, the fields whose name carries a
\* platform prefix (tiktok_title, instagram_first_comment, ...) included, is in
\* the form body only if that platform is in the requested platform list.
C10_PlatformFieldsOnlyIfRequested ==
    (Uploaded /\ form.built) =>
        OnlyRequested(TRUE)

\* C10 as amended: a field emitted by a per-platform section is in the form body
\* only if a platform whose section emits it is in the requested platform list.
C10_SectionFieldsOnlyIfRequested ==
    (Uploaded /\ form.built) => OnlyRequested(FALSE)

\* C10 witness: a video for pinterest alone, given every option: the board id is
\* in the body, the TikTok privacy level and the YouTube tags are not.
C10_Witness ==
    /\ Uploaded /\ form.built /\ call.op = "upload_video"
    /\ call.args.platforms = <<P("pinterest")>>
    /\ {"privacy_level", "tags", "pinterest_board_id"} \subseteq DOMAIN call.args.kwargs
    /\ "pinterest_board_id" \in FieldNames
    /\ "privacy_level" \notin FieldNames
    /\ "tags[]" \notin FieldNames

(***************************************************************************)
(* Base fields of the form body                                            *)
(***************************************************************************)
\* the values of the fields called `name`, in the order of the body
FieldValues(name) ==
    LET named == SelectSeq(form.data, LAMBDA f : f[1] = name)
    IN  [i \in 1..Len(named) |-> named[i][2]]

\* the title the call was given; upload_document is always given one
TitleGiven == IF call.op = "upload_document" THEN StrV(<<"T">>) ELSE call.args.title

\* C11 as stated: the form body of an upload holds exactly one `user` field,
\* exactly one `title` field, and one `platform[]` field per element of the
\* platforms argument, in its order (for upload_document: linkedin).
C11_BaseFieldsExactlyOnce ==
    (Uploaded /\ form.built) =>
        /\ Len(FieldValues("user")) = 1
        /\ Len(FieldValues("title")) = 1
        /\ FieldValues("platform[]") = call.args.platforms

\* C11 as amended: exactly one `user` field; one `title` field holding the title
\* when the title is a non-empty string and none when it is None or empty; one
\* `platform[]` field per element of the platforms argument, in its order.
C11_BaseFieldsOnceTitleIfGiven ==
    (Uploaded /\ form.built) =>
        /\ FieldValues("user") = <<StrV(<<"u">>)>>
        /\ FieldValues("title") =
              IF TitleGiven \in {None, StrV(<<>>)} THEN <<>> ELSE <<TitleGiven>>
        /\ FieldValues("platform[]") = call.args.platforms

\* C11 witness: photos for x then tiktok, without a title: the two platform[]
\* fields in that order, one user field, no title field.
C11_Witness ==
    /\ Uploaded /\ form.built /\ call.op = "upload_photos"
    /\ call.args.title = None
    /\ call.args.platforms = <<P("x"), P("tiktok")>>
    /\ FieldValues("platform[]") = <<P("x"), P("tiktok")>>
    /\ Len(FieldValues("user")) = 1
    /\ FieldValues("title") = <<>>

(***************************************************************************)
(* Options that are absent or empty                                        *)
(***************************************************************************)
\* the option is not supplied, None, an empty string or an empty list
Absent(key) ==
    \/ key \notin DOMAIN call.args.kwargs
    \/ call.args.kwargs[key] \in {None, StrV(<<>>), ListV(<<>>)}

\* no field of the body carries the option's name (or its array name, key[])
NotEmitted(key) == key \notin FieldNames /\ (key \o "[]") \notin FieldNames

\* C12 as stated: an option that is absent or empty leaves no field of its name
\* in the form body, whatever the other options are.
C12_AbsentOptionOmitted ==
    (Uploaded /\ form.built) =>
        \A key \in OptionKeys : Absent(key) => NotEmitted(key)

\* C12 as amended: an option that is absent or empty leaves no field of its name
\* in the form body, except linkedin_link_url and reddit_link_url, which are
\* filled from a non-empty link_url.
C12_AbsentOptionOmittedButLinks ==
    (Uploaded /\ form.built) =>
        \A key \in OptionKeys :
            Absent(key) =>
                \/ NotEmitted(key)
                \/ /\ key \in {"linkedin_link_url", "reddit_link_url"}
                   /\ ~Absent("link_url")
                   /\ FieldValues(key) = <<call.args.kwargs["link_url"]>>

\* C12 witness: a text post for linkedin with link_url and an empty
\* linkedin_link_url: the body holds linkedin_link_url with the value of link_url,
\* and no field for any other option.
C12_Witness ==
    /\ Uploaded /\ form.built /\ call.op = "upload_text"
    /\ call.args.platforms = <<P("linkedin")>>
    /\ DOMAIN call.args.kwargs = {"link_url", "linkedin_link_url"}
    /\ call.args.kwargs["linkedin_link_url"] = StrV(<<>>)
    /\ FieldValues("linkedin_link_url") = <<StrV(<<"v">>)>>
    /\ FieldNames = {"user", "title", "platform[]", "link_url", "linkedin_link_url"}

(***************************************************************************)
(* The same call made again with other arguments                           *)
(***************************************************************************)
\* the method of the call, run on the same media, title and answer with the
\* platform list and keyword bag given here
Again(platforms, kwargs) ==
    CASE call.op = "upload_video" ->
           upload_video(call.args.media[1], call.args.title, StrV(<<"u">>), platforms,
                        kwargs, headers, call.args.outcome)
      [] call.op = "upload_photos" ->
           upload_photos(call.args.media, call.args.title, StrV(<<"u">>), platforms,
                         kwargs, headers, call.args.outcome)
      [] call.op = "upload_text" ->
           upload_text(call.args.title, StrV(<<"u">>), platforms, kwargs, headers,
                       call.args.outcome)
      [] call.op = "upload_document" ->
           upload_document(call.args.media[1], StrV(<<"T">>), StrV(<<"u">>),
                           kwargs["description"], kwargs["visibility"], None, None,
                           kwargs["timezone"], kwargs["add_to_queue"], None, headers,
                           call.args.outcome)

\* the names of the fields of a body, in order
NamesIn(data) == [i \in 1..Len(data) |-> data[i][1]]

(***************************************************************************)
(* Boolean options                                                         *)
(***************************************************************************)
\* the options of the call given as True or False
BoolsGiven ==
    {key \in BoolKeys \cap DOMAIN call.args.kwargs : call.args.kwargs[key].t = "bool"}

\* the same call with True for the option
WithTrue(key) ==
    IF call.args.kwargs[key] = BoolV(TRUE) THEN form.data
    ELSE Again(call.args.platforms,
               [call.args.kwargs EXCEPT ![key] = BoolV(TRUE)]).form.data

\* C13: a boolean option given as True or False is emitted as the string "true"
\* or "false" respectively, and False is emitted wherever True would be.
C13_BooleansLowercase ==
    (Uploaded /\ form.built) =>
        \A key \in BoolsGiven :
            /\ \A i \in 1..Len(form.data) :
                  form.data[i][1] = key =>
                      form.data[i][2] =
                          IF call.args.kwargs[key].v
                          THEN StrV(<<"t", "r", "u", "e">>)
                          ELSE StrV(<<"f", "a", "l", "s", "e">>)
            /\ NamesIn(WithTrue(key)) = NamesIn(form.data)

\* C13 witness: a video for tiktok with disable_duet=False among every other
\* option: the body holds disable_duet=false and is_aigc=true.
C13_Witness ==
    /\ Uploaded /\ form.built /\ call.op = "upload_video"
    /\ call.args.platforms = <<P("tiktok")>>
    /\ {"disable_duet", "is_aigc"} \subseteq DOMAIN call.args.kwargs
    /\ call.args.kwargs["disable_duet"] = BoolV(FALSE)
    /\ FieldValues("disable_duet") = <<StrV(<<"f", "a", "l", "s", "e">>)>>
    /\ FieldValues("is_aigc") = <<StrV(<<"t", "r", "u", "e">>)>>

(***************************************************************************)
(* List options given as a comma-separated string                          *)
(***************************************************************************)
\* what may stand between two items of the string, and around the string
Separators == {<<",">>, <<",", " ">>, <<" ", ",">>, <<" ", ",", " ", " ">>}
Paddings == {<<>>, <<" ">>}

\* the items written one after the other with `sep` between them
RECURSIVE Csv(_, _)
Csv(items, sep) ==
    IF Len(items) = 1 THEN Head(items).v
    ELSE Head(items).v \o sep \o Csv(Tail(items), sep)

\* the list options of the call given as a native list of at least one item
ListsGiven ==
    {key \in ListKeys \cap DOMAIN call.args.kwargs :
        call.args.kwargs[key].t = "list" /\ call.args.kwargs[key].v # <<>>}

\* C14: for a list option given as the native list L, the array fields of the
\* body are the items of L in order (where the option is emitted at all), and
\* giving the option as the comma-separated string of L, with any blanks around
\* the commas, builds the same body.
C14_CsvSameAsList ==
    (Uploaded /\ form.built) =>
        \A key \in ListsGiven :
            /\ FieldValues(key \o "[]") \in {<<>>, call.args.kwargs[key].v}
            /\ \A sep \in Separators, pad \in Paddings :
                  Again(call.args.platforms,
                        [call.args.kwargs EXCEPT ![key] =
                            StrV(pad \o Csv(call.args.kwargs[key].v, sep) \o pad)]
                       ).form.data = form.data

\* C14 witness: a text post for x with the poll options b, a, b as a list: three
\* poll_options[] fields in that order.
C14_Witness ==
    /\ Uploaded /\ form.built /\ call.op = "upload_text"
    /\ call.args.platforms = <<P("x")>>
    /\ "poll_options" \in ListsGiven
    /\ FieldValues("poll_options[]") = <<StrV(<<"b">>), StrV(<<"a">>), StrV(<<"b">>)>>

(***************************************************************************)
(* Media given as URLs                                                     *)
(***************************************************************************)
\* the media references of the call that are URLs, in order
UrlsGiven == SelectSeq(call.args.media, LAMBDA ref : ref \in {UrlLower, UrlUpper})

\* the form field that carries the media of the method
MediaField ==
    CASE call.op = "upload_video" -> "video"
      [] call.op = "upload_photos" -> "photos[]"
      [] call.op = "upload_document" -> "document"

\* C15: in upload_video, upload_photos and upload_document a media reference
\* that begins with http:// or https://, in any letter case, is not looked up as
\* a file and is never opened; it is sent as a form field (video, photos[],
\* document) holding the reference unchanged and adds no file part; a request
\* whose references are all URLs has no file parts.
C15_UrlSentAsField ==
    (Uploaded /\ call.op # "upload_text") =>
        /\ \A h \in 1..Len(handles) : handles[h].path \notin {UrlLower, UrlUpper}
        /\ ~RefersToMissing => (form.built /\ Len(sent) = 1)
        /\ form.built =>
              /\ FieldValues(MediaField) = [i \in 1..Len(UrlsGiven) |-> StrV(UrlsGiven[i])]
              /\ Len(form.files) + Len(UrlsGiven)
                     = Len(call.args.media)
                       + Len(SelectSeq(form.files,
                                       LAMBDA part : part[1] = "first_comment_media[]"))
              /\ (UrlsGiven = call.args.media /\ MediaGiven = {} /\ sent # <<>>)
                     => (form.files = <<>> /\ sent[1].files = None)

\* C15 witness: photos given as an upper-case URL and a local file: one
\* photos[] field with the URL as given, one file part, one handle, closed.
C15_Witness ==
    /\ Uploaded /\ form.built /\ call.op = "upload_photos"
    /\ call.args.media = <<UrlUpper, LocalA>>
    /\ FieldValues("photos[]") = <<StrV(UrlUpper)>>
    /\ Len(form.files) = 1
    /\ Len(handles) = 1 /\ handles[1].path = LocalA
    /\ sent # <<>>

(***************************************************************************)
(* Order of the form fields                                                *)
(***************************************************************************)
\* the common fields in the order the claim C16 gives them
ClaimedOrder ==
    <<"user", "title", "platform[]", "first_comment", "alt_text", "scheduled_date",
      "timezone", "add_to_queue", "async_upload">>
    \o title_overrides \o desc_overrides \o comment_overrides

\* the same with max_posts_per_slot, between add_to_queue and async_upload
CommonOrder ==
    <<"user", "title", "platform[]", "first_comment", "alt_text", "scheduled_date",
      "timezone", "add_to_queue", "max_posts_per_slot", "async_upload">>
    \o title_overrides \o desc_overrides \o comment_overrides

ListedIn(order, name) == \E r \in 1..Len(order) : order[r] = name
RankIn(order, name) == CHOOSE r \in 1..Len(order) : order[r] = name

\* from the field at position `first` on, the fields listed in `order` come
\* before every other field, in that order: each one after the first directly
\* follows a listed field that `order` does not put later
CommonBlock(order, first) ==
    \A i \in first..Len(form.data) - 1 :
        ListedIn(order, form.data[i + 1][1]) =>
            /\ ListedIn(order, form.data[i][1])
            /\ RankIn(order, form.data[i][1]) <= RankIn(order, form.data[i + 1][1])

\* the number of media references sent as form fields
MediaFields ==
    IF call.op = "upload_text" THEN 0 ELSE Len(FieldValues(MediaField))

BuiltByBuilder ==
    Uploaded /\ form.built /\ call.op # "upload_document"

\* C16 as stated: `user` is the first field of the body, and the common fields
\* (user, title, platform[], first_comment, alt_text, scheduled_date, timezone,
\* add_to_queue, async_upload, title, description and first-comment overrides)
\* come in that order before every other field.
C16_CommonFieldsFirst ==
    BuiltByBuilder =>
        /\ form.data[1][1] = "user"
        /\ CommonBlock(ClaimedOrder, 1)

\* C16 as amended: the media references given as URLs come first (video,
\* photos[]), `user` is the first field after them, and the common fields, with
\* max_posts_per_slot between add_to_queue and async_upload, come in order
\* before every other field.
C16_CommonFieldsAfterMedia ==
    BuiltByBuilder =>
        /\ \A i \in 1..MediaFields : form.data[i][1] = MediaField
        /\ form.data[MediaFields + 1][1] = "user"
        /\ CommonBlock(CommonOrder, MediaFields + 1)

\* C16 witness: a video given as a URL for youtube with every option: the body
\* starts video, user, title, platform[]; the youtube fields follow the last
\* first-comment override.
C16_Witness ==
    /\ BuiltByBuilder /\ call.op = "upload_video"
    /\ call.args.media = <<UrlLower>>
    /\ call.args.platforms = <<P("youtube")>>
    /\ "max_posts_per_slot" \in DOMAIN call.args.kwargs
    /\ SubSeq(NamesIn(form.data), 1, 4) = <<"video", "user", "title", "platform[]">>
    /\ \E i \in 1..Len(form.data) - 1 :
          /\ form.data[i][1] = "bluesky_first_comment"
          /\ form.data[i + 1][1] = "tags[]"

(***************************************************************************)
(* Order of the platform sections                                          *)
(***************************************************************************)
SectionOrder ==
    <<"tiktok", "instagram", "youtube", "linkedin", "facebook", "pinterest", "x",
      "threads", "reddit", "bluesky">>

AllSectionFields == UNION {SectionFields(p) : p \in Platforms}

\* the places in SectionOrder of the sections that emit a field
SectionRanks ==
    [name \in AllSectionFields |->
        {r \in 1..Len(SectionOrder) : name \in SectionFields(SectionOrder[r])}]

\* the fields of a body that some platform section emits, in order
SectionPart(data) == SelectSeq(data, LAMBDA f : f[1] \in AllSectionFields)

\* a section field is never followed by a field of an earlier section
InSectionOrder(data) ==
    \A i, j \in 1..Len(data) :
        i < j =>
            \E r \in SectionRanks[data[i][1]], t \in SectionRanks[data[j][1]] : r <= t

\* the platform lists with the same names as the call's, as often, in any order
Reorderings ==
    LET p == call.args.platforms
        places == 1..Len(p)
        shuffles == {g \in [places -> places] : \A k \in places : \E i \in places : g[i] = k}
    IN  {[i \in places |-> p[g[i]]] : g \in shuffles}

\* C17: the section fields of a body follow the order tiktok, instagram,
\* youtube, linkedin, facebook, pinterest, x, threads, reddit, bluesky, and the
\* same call with its platform list permuted emits the same sequence of section
\* fields, names and values.
C17_SectionsInFixedOrder ==
    BuiltByBuilder =>
        /\ InSectionOrder(SectionPart(form.data))
        /\ \A q \in Reorderings :
              SectionPart(Again(q, call.args.kwargs).form.data) = SectionPart(form.data)

\* C17 witness: x listed before tiktok with every option: the tiktok fields
\* come before the x fields, as they do with tiktok listed first.
C17_Witness ==
    /\ BuiltByBuilder /\ call.op = "upload_photos"
    /\ call.args.platforms = <<P("x"), P("tiktok")>>
    /\ <<P("tiktok"), P("x")>> \in Reorderings
    /\ \E i, j \in 1..Len(form.data) :
          /\ i < j
          /\ form.data[i][1] = "auto_add_music"
          /\ form.data[j][1] = "reply_settings"

(***************************************************************************)
(* Keywords that are no option                                             *)
(***************************************************************************)
\* the keyword bag of the call without the keyword `key`
Without(key) == [k \in DOMAIN call.args.kwargs \ {key} |-> call.args.kwargs[k]]

\* the keywords of the call that no upload method documents
Undocumented == DOMAIN call.args.kwargs \ OptionKeys

\* C18: a keyword that is not a documented option has no effect: the call with
\* it raises what the call without it raises (nothing new) and sends the same
\* form fields and file parts.
C18_UnknownKeywordNoEffect ==
    (Uploaded /\ call.op # "upload_document") =>
        \A key \in Undocumented :
            LET without == Again(call.args.platforms, Without(key))
            IN  /\ call.exc = without.exc
                /\ form = without.form

(***************************************************************************)
(* TikTok fields by media kind                                             *)
(***************************************************************************)
TikTokVideoFields ==
    {"privacy_level", "disable_duet", "disable_stitch", "cover_timestamp", "is_aigc",
     "post_mode"}

TikTokPhotoFields == {"auto_add_music", "photo_cover_index"}
TikTokFields == TikTokVideoFields \cup TikTokPhotoFields

TikTokRequested == Uploaded /\ In("tiktok", call.args.platforms)

\* C19: with tiktok requested, upload_video emits none of auto_add_music and
\* photo_cover_index, and upload_photos none of privacy_level, disable_duet,
\* disable_stitch, cover_timestamp, is_aigc and post_mode, whatever the keywords.
C19_TikTokFieldsByMediaKind ==
    TikTokRequested =>
        /\ call.op = "upload_video" => FieldNames \cap TikTokPhotoFields = {}
        /\ call.op = "upload_photos" => FieldNames \cap TikTokVideoFields = {}

\* C19 witness: photos for tiktok with every option given, those of the video
\* branch included: the body has the two photo fields and none of the video's.
C19_Witness ==
    /\ TikTokRequested /\ call.op = "upload_photos" /\ form.built
    /\ TikTokFields \subseteq DOMAIN call.args.kwargs
    /\ \A k \in TikTokVideoFields : Truthy(call.args.kwargs[k])
    /\ TikTokPhotoFields \subseteq FieldNames
    /\ "disable_comment" \in FieldNames

(***************************************************************************)
(* Headers of the session                                                  *)
(***************************************************************************)
\* the headers a client constructed with `key` sends
HeadersFor(key) ==
    [Authorization |-> <<"Apikey ">> \o key,
     UserAgent |-> <<"upload-post-python-client/2.0.0">>,
     XUploadPostSource |-> <<"pip">>]

HeadersSent ==
    /\ headers = HeadersFor(api_key)
    /\ \A i \in 1..Len(sent) : sent[i].headers = HeadersFor(api_key)

\* C20: at every point of every sequence of operations, the session headers are
\* `Authorization: Apikey <key>` with the key given at construction, User-Agent
\* and X-Upload-Post-Source, every request sent carries exactly them, and no
\* operation changes the key or the headers.
C20_HeadersOnEveryRequest ==
    /\ []HeadersSent
    /\ [][api_key' = api_key /\ headers' = headers]_vars

\* C20 witness: a call of the client built with the second key failed after
\* its request went out with that key.
C20_Witness ==
    /\ Finished /\ call.exc = "UploadPostError"
    /\ api_key = <<"key-2">>
    /\ Len(sent) = 1
    /\ sent[1].headers.Authorization = <<"Apikey ", "key-2">>

(***************************************************************************)
(* Link options of a text post                                             *)
(***************************************************************************)
\* the value of a option that is given (neither absent nor empty), as the
\* values of one field; no value when it is not given
GivenValue(key) == IF Absent(key) THEN <<>> ELSE <<call.args.kwargs[key]>>

\* the platform's own link when given, the generic link_url otherwise
LinkFor(key) == IF Absent(key) THEN GivenValue("link_url") ELSE GivenValue(key)

\* C21: in upload_text, with linkedin requested the linkedin_link_url field
\* carries linkedin_link_url when given and link_url otherwise, with reddit
\* requested the reddit_link_url field carries reddit_link_url when given and
\* link_url otherwise, and the link_url field carries link_url whenever given.
C21_PlatformLinkFirst ==
    (Uploaded /\ call.op = "upload_text" /\ form.built) =>
        /\ In("linkedin", call.args.platforms) =>
              FieldValues("linkedin_link_url") = LinkFor("linkedin_link_url")
        /\ In("reddit", call.args.platforms) =>
              FieldValues("reddit_link_url") = LinkFor("reddit_link_url")
        /\ FieldValues("link_url") = GivenValue("link_url")

\* C21 witness: a text post for linkedin and reddit with the three link options,
\* each of a different value, the reddit one empty: linkedin gets its own link,
\* reddit the generic one.
C21_Witness ==
    /\ Uploaded /\ call.op = "upload_text" /\ form.built
    /\ call.args.platforms = <<P("linkedin"), P("reddit")>>
    /\ call.args.kwargs = [link_url |-> StrV(<<"g">>), linkedin_link_url |-> StrV(<<"l">>),
                           reddit_link_url |-> StrV(<<>>)]
    /\ NamesIn(form.data) =
          <<"user", "title", "platform[]", "platform[]", "link_url", "linkedin_link_url",
            "reddit_link_url">>
    /\ FieldValues("linkedin_link_url") = <<StrV(<<"l">>)>>
    /\ FieldValues("reddit_link_url") = <<StrV(<<"g">>)>>

(***************************************************************************)
(* Repeated field names                                                    *)
(***************************************************************************)
\* the field names of array style: platform[], photos[], tags[], ...
ArrayNames == {"platform[]", "photos[]", "tags[]", "tagged_user_ids[]", "poll_options[]"}

\* C22: in every form body built by an upload operation, each field name that
\* does not end in [] appears at most once.
C22_ScalarFieldsOnce ==
    (Uploaded /\ form.built) =>
        \A name \in FieldNames \ ArrayNames : Len(FieldValues(name)) <= 1

(***************************************************************************)
(* first_comment_media entries                                             *)
(***************************************************************************)
CommentMediaNames == {"first_comment_media", "first_comment_media[]"}

\* C23: every first_comment_media entry of upload_photos and upload_text is a
\* local path, one that begins with http:// or https:// included: an entry whose
\* path does not exist makes the call raise UploadPostError with no request
\* sent, and no entry is sent as a form field.
C23_CommentMediaAreLocalPaths ==
    (Uploaded /\ MediaGiven # {}) =>
        /\ (\E path \in MediaGiven : path \notin ExistingPaths) =>
              (call.exc = "UploadPostError" /\ sent = <<>>)
        /\ FieldNames \cap CommentMediaNames = {}
        /\ call.exc = "none" =>
              /\ MediaGiven \subseteq ExistingPaths
              /\ Len(SelectSeq(form.files, LAMBDA f : f[1] = "first_comment_media[]"))
                    = Len(call.args.kwargs["first_comment_media"].v)

\* C23 witness: a text post whose first_comment_media is a URL: the call raised
\* "First comment media file not found" for it and sent nothing.
C23_Witness ==
    /\ Uploaded /\ call.op = "upload_text"
    /\ MediaGiven = {UrlLower}
    /\ call.exc = "UploadPostError" /\ sent = <<>>
    /\ call.msg = <<"First comment media file not found: ">> \o UrlLower
    /\ form.files = <<>>

(***************************************************************************)
(* X fields of text and media posts                                        *)
(***************************************************************************)
PollFields == {"poll_options[]", "poll_duration", "poll_reply_settings"}
XMediaFields == {"tagged_user_ids[]", "place_id", "x_thread_image_layout"}
PollDetails == {"poll_duration", "poll_reply_settings"}
XMediaOptions == {"tagged_user_ids", "place_id", "x_thread_image_layout"}

\* C24: poll_options[], poll_duration and poll_reply_settings appear only in
\* upload_text with x requested, the last two only when poll_options is
\* non-empty, and tagged_user_ids[], place_id and x_thread_image_layout never
\* appear in upload_text.
C24_PollFieldsOnlyInTextPolls ==
    Uploaded =>
        /\ FieldNames \cap PollFields # {} =>
              (call.op = "upload_text" /\ In("x", call.args.platforms))
        /\ FieldNames \cap PollDetails # {} =>
              (~Absent("poll_options") /\ "poll_options[]" \in FieldNames)
        /\ call.op = "upload_text" => FieldNames \cap XMediaFields = {}

\* C24 witness: a text post for x with every option: the body has the poll
\* with its duration and reply settings and none of the media post's x fields,
\* all of which were given.
C24_Witness ==
    /\ Uploaded /\ call.op = "upload_text" /\ form.built
    /\ call.args.platforms = <<P("x")>>
    /\ \A k \in XMediaOptions : ~Absent(k)
    /\ PollFields \subseteq FieldNames
    /\ FieldValues("poll_duration") = <<StrV(<<"5">>)>>
    /\ FieldNames \cap XMediaFields = {}

(***************************************************************************)
(* Integer options                                                         *)
(***************************************************************************)
PresenceKeys ==
    {"cover_timestamp", "photo_cover_index", "pinterest_cover_image_key_frame_time",
     "max_posts_per_slot"}

\* the call runs the section that reads the option
Applies(key) ==
    CASE key = "cover_timestamp" ->
           call.op = "upload_video" /\ In("tiktok", call.args.platforms)
      [] key = "photo_cover_index" ->
           call.op = "upload_photos" /\ In("tiktok", call.args.platforms)
      [] key = "pinterest_cover_image_key_frame_time" ->
           call.op = "upload_video" /\ In("pinterest", call.args.platforms)
      [] key = "max_posts_per_slot" ->
           call.op \in {"upload_video", "upload_photos", "upload_text"}

\* the decimal string of the integers explored
Decimal(value) ==
    CASE value = IntV(0) -> StrV(<<"0">>)
      [] value = IntV(5) -> StrV(<<"5">>)

\* C25: cover_timestamp, photo_cover_index, pinterest_cover_image_key_frame_time
\* and max_posts_per_slot are emitted by presence: where their section applies,
\* a value of 0 is sent as "0" (any integer as its decimal string), and the
\* field is left out only when the option is not supplied or None.
C25_IntegersByPresence ==
    (Uploaded /\ form.built) =>
        \A key \in PresenceKeys :
            Applies(key) =>
                FieldValues(key) =
                    IF key \in DOMAIN call.args.kwargs /\ call.args.kwargs[key] # None
                    THEN <<Decimal(call.args.kwargs[key])>>
                    ELSE <<>>

\* C25 witness: a video for tiktok with cover_timestamp=0 among every other
\* option: the body has cover_timestamp "0".
C25_Witness ==
    /\ Uploaded /\ form.built /\ call.op = "upload_video"
    /\ call.args.platforms = <<P("tiktok")>>
    /\ "max_posts_per_slot" \in DOMAIN call.args.kwargs
    /\ "cover_timestamp" \in DOMAIN call.args.kwargs
    /\ call.args.kwargs["cover_timestamp"] = IntV(0)
    /\ FieldValues("cover_timestamp") = <<StrV(<<"0">>)>>

====
